---------------------------- MODULE Spec2Model ----------------------------
(***************************************************************************)
(* A model of the fluxing routines of src/deprecated/flux.py: the          *)
(* extinction catalog and correction, the standard-star resolver, the      *)
(* sensitivity-function generator and the calibration applier.             *)
(*                                                                         *)
(* The routines are numeric functions of their arguments.  One behaviour   *)
(* of the model is one call: Init draws the routine and its arguments from *)
(* bounded sets, and the routine's action computes what the code returns   *)
(* (or the exception it ends with).  generate_sensfunc runs as a sequence  *)
(* of steps, one per stage of its body.                                    *)
(***************************************************************************)
EXTENDS Integers, Sequences, FiniteSets, TLC

VARIABLES call, pc, ret

vars == <<call, pc, ret>>

(***************************************************************************)
(* Numbers.  numpy's float64 values are modelled exactly, as decimal       *)
(* rationals n/d * 10^e in canonical form (d > 0 coprime to n and to 10,   *)
(* n not a multiple of 10), with the three non-finite values numpy         *)
(* produces on division by zero: d = 0 and n = 1 (+inf), n = -1 (-inf),    *)
(* n = 0 (nan).  Rounding and signed zeros are not modelled; the inputs    *)
(* are chosen so that every result is exactly representable.               *)
(***************************************************************************)
Abs(x) == IF x < 0 THEN -x ELSE x

Sgn(x) == IF x < 0 THEN -1 ELSE IF x > 0 THEN 1 ELSE 0

RECURSIVE Gcd(_, _)
Gcd(a, b) == IF b = 0 THEN a ELSE Gcd(b, a % b)

RECURSIVE Pow10i(_)
Pow10i(k) == IF k <= 0 THEN 1 ELSE 10 * Pow10i(k - 1)

NaN == [n |-> 0, d |-> 0, e |-> 0]

PInf == [n |-> 1, d |-> 0, e |-> 0]

NInf == [n |-> -1, d |-> 0, e |-> 0]

Zero == [n |-> 0, d |-> 1, e |-> 0]

RECURSIVE StripTens(_, _, _)
StripTens(n, d, e) ==
    IF n = 0 THEN Zero
    ELSE IF n % 10 = 0 THEN StripTens(n \div 10, d, e + 1)
    ELSE [n |-> n, d |-> d, e |-> e]

RECURSIVE MkD(_, _, _)
MkD(n, d, e) ==
    IF d % 10 = 0 THEN MkD(n, d \div 10, e - 1)
    ELSE IF d % 2 = 0 THEN MkD(n * 5, d \div 2, e - 1)
    ELSE IF d % 5 = 0 THEN MkD(n * 2, d \div 5, e - 1)
    ELSE StripTens(n, d, e)

\* The canonical form of n/d * 10^e, d >= 0.
Mk(n, d, e) ==
    IF d = 0 THEN (IF n > 0 THEN PInf ELSE IF n < 0 THEN NInf ELSE NaN)
    ELSE LET g == Gcd(Abs(n), d) IN MkD(n \div g, d \div g, e)

Num(i) == Mk(i, 1, 0)

\* The decimal literal m * 10^e, e.g. Dec(1, -10) for 1e-10.
Dec(m, e) == Mk(m, 1, e)

IsNaN(a) == a.d = 0 /\ a.n = 0

IsFinite(a) == a.d > 0

Neg(a) == [a EXCEPT !.n = -a.n]

Mul(a, b) == Mk(a.n * b.n, a.d * b.d, a.e + b.e)

\* numpy's true division: x/0 is +-inf, 0/0 is nan, x/inf is 0.
Div(a, b) ==
    Mk(a.n * b.d * (IF b.n < 0 THEN -1 ELSE 1), a.d * Abs(b.n), a.e - b.e)

Add(a, b) ==
    IF IsNaN(a) \/ IsNaN(b) THEN NaN
    ELSE IF a.d = 0 THEN (IF b.d = 0 /\ b.n # a.n THEN NaN ELSE a)
    ELSE IF b.d = 0 THEN b
    ELSE IF a.n = 0 THEN b
    ELSE IF b.n = 0 THEN a
    ELSE LET e == IF a.e < b.e THEN a.e ELSE b.e
             an == a.n * Pow10i(a.e - e)
             bn == b.n * Pow10i(b.e - e)
         IN Mk(an * b.d + bn * a.d, a.d * b.d, e)

Sub(a, b) == Add(a, Neg(b))

\* x * 10^k < y for positive integers x, y and k >= 0, without forming x * 10^k.
RECURSIVE LtScaled(_, _, _)
LtScaled(x, y, k) ==
    IF k = 0 THEN x < y ELSE LtScaled(x, ((y - 1) \div 10) + 1, k - 1)

\* a < b for finite a, b > 0.
LtPos(a, b) ==
    IF a.e >= b.e THEN LtScaled(a.n * b.d, b.n * a.d, a.e - b.e)
    ELSE ~ (a = b) /\ ~ LtScaled(b.n * a.d, a.n * b.d, b.e - a.e)

\* Comparisons as numpy makes them: every comparison with nan is False.
Lt(a, b) ==
    IF IsNaN(a) \/ IsNaN(b) THEN FALSE
    ELSE IF a = b THEN FALSE
    ELSE IF a.d = 0 THEN a.n < 0
    ELSE IF b.d = 0 THEN b.n > 0
    ELSE IF Sgn(a.n) # Sgn(b.n) THEN Sgn(a.n) < Sgn(b.n)
    ELSE IF a.n > 0 THEN LtPos(a, b)
    ELSE LtPos(Neg(b), Neg(a))

Gt(a, b) == Lt(b, a)

Eq(a, b) == ~ IsNaN(a) /\ a = b

Le(a, b) == Lt(a, b) \/ Eq(a, b)

Ge(a, b) == Le(b, a)

\* A numpy boolean used in arithmetic is 1.0 or 0.0.
BoolNum(p) == IF p THEN Num(1) ELSE Zero

\* 10.0 ** x for the x of the model, whose value is an integer (any other
\* exponent has no exact value and no value here).
Pow10(x) ==
    LET k == CHOOSE k \in {x.n * Pow10i(x.e)} : IsFinite(x) /\ x.d = 1 /\ x.e >= 0
    IN [n |-> 1, d |-> 1, e |-> k]

\* np.sqrt on the perfect squares of the model; nan below zero.
Sqrt(x) ==
    IF IsNaN(x) \/ Lt(x, Zero) THEN NaN
    ELSE IF ~ IsFinite(x) THEN x
    ELSE LET v == x.n * Pow10i(x.e)
             r == CHOOSE r \in 0..v : x.d = 1 /\ x.e >= 0 /\ r * r = v
         IN Num(r)

NumAbs(a) == IF a.n < 0 THEN Neg(a) ELSE a

(***************************************************************************)
(* Python values.  None is the empty tuple and a value v that may be None  *)
(* is <<v>>.  An array is a sequence.  A raised exception ends the call.   *)
(***************************************************************************)
None == <<>>

Some(v) == <<v>>

Val(o) == o[1]

Raised(error, msg) == [status |-> "raised", error |-> error, msg |-> msg]

\* pypeit.msgs.error: logs the message and raises PypeItError.
msgs_error(msg) == Raised("PypeItError", msg)

SetMin(S) == CHOOSE x \in S : \A y \in S : x <= y

SetMax(S) == CHOOSE x \in S : \A y \in S : x >= y

Idx(s) == 1..Len(s)

\* The arrays of length len over S.
Arrays(S, len) == [1..len -> S]

\* An array of numbers.
NumSeq(s) == [i \in Idx(s) |-> Num(s[i])]

\* The increasing sequences of length len over the integers lo..hi.
RECURSIVE IncSeqs(_, _, _)
IncSeqs(lo, hi, len) ==
    IF len = 0 THEN {<<>>}
    ELSE UNION {{<<i>> \o t : t \in IncSeqs(i + 1, hi, len - 1)} : i \in lo..hi}

(***************************************************************************)
(* scipy.interpolate.interp1d(x, y, bounds_error=False, fill_value=...)    *)
(* at one point: linear between the knots; outside them the fill value,    *)
(* or with fill_value='extrapolate' the line of the end segment.           *)
(***************************************************************************)
InterpSegment(xs, ys, i, x) ==
    Add(Mul(Div(Sub(ys[i + 1], ys[i]), Sub(xs[i + 1], xs[i])), Sub(x, xs[i])), ys[i])

\* The segment is the one np.searchsorted picks: the number of knots below
\* x, clipped to 1..len-1.
InterpInside(xs, ys, x) ==
    LET k == Cardinality({j \in Idx(xs) : Lt(xs[j], x)})
    IN InterpSegment(xs, ys, IF k < 1 THEN 1 ELSE IF k > Len(xs) - 1 THEN Len(xs) - 1 ELSE k, x)

Interp1dFill(xs, ys, x, fill_value) ==
    IF Lt(x, xs[1]) \/ Gt(x, xs[Len(xs)]) THEN fill_value
    ELSE InterpInside(xs, ys, x)

Interp1dExtrapolate(xs, ys, x) ==
    IF Lt(x, xs[1]) THEN InterpSegment(xs, ys, 1, x)
    ELSE IF Gt(x, xs[Len(xs)]) THEN InterpSegment(xs, ys, Len(xs) - 1, x)
    ELSE InterpInside(xs, ys, x)

(***************************************************************************)
(* The extinction catalog.  The site table (data/extinction/README) and    *)
(* the curve files are data of the package: two sites here, each with a    *)
(* two-knot curve.  Observatory and sites lie on the equator, where the    *)
(* great-circle separation SkyCoord computes is the longitude difference.  *)
(* Magnitudes are multiples of 2.5, so that 10^(0.4*mag*airmass) is an     *)
(* exact power of ten.                                                     *)
(***************************************************************************)
extinct_files ==
    << [Lon |-> Num(10), Lat |-> Zero, File |-> "siteA.dat"],
       [Lon |-> Num(30), Lat |-> Zero, File |-> "siteB.dat"] >>

extinct_table(file) ==
    IF file = "siteA.dat"
    THEN [wave |-> <<Num(4000), Num(6000)>>, mag_ext |-> <<Num(5), Num(10)>>]
    ELSE [wave |-> <<Num(3000), Num(5000)>>, mag_ext |-> <<Num(10), Num(5)>>]

\* The default toler of load_extinction_data, in degrees.
EXTINCT_TOLER == 5

separation(lon1, lon2) == NumAbs(Sub(lon1, lon2))

\* coordinates.match_coordinates_sky(coord, catalog, nthneighbor=1): the
\* entries at the least separation (one of them is returned).
match_coordinates_sky(coord, catalog) ==
    {i \in Idx(catalog) :
        \A j \in Idx(catalog) :
            Le(separation(coord, catalog[i]), separation(coord, catalog[j]))}

\* load_extinction_data(longitude, latitude, toler=5 deg): the table of the
\* nearest site, or None.
load_extinction_data(longitude, latitude) ==
    LET ext_coord == [i \in Idx(extinct_files) |-> extinct_files[i].Lon]
        idx == SetMin(match_coordinates_sky(longitude, ext_coord))
        d2d == separation(longitude, ext_coord[idx])
    IN IF Lt(d2d, Num(EXTINCT_TOLER))
       THEN Some(extinct_table(extinct_files[idx].File))
       ELSE None

\* The edge handling of extinction_correction (the if/elif chain on gdv).
extinct_edges(mag_ext) ==
    LET gdv == {i \in Idx(mag_ext) : Gt(mag_ext[i], Zero)}
    IN IF gdv = {} THEN [mag_ext |-> mag_ext, warn |-> "No valid extinction data"]
       ELSE IF SetMin(gdv) # 1
       THEN [mag_ext |-> [i \in Idx(mag_ext) |->
                            IF i < SetMin(gdv) THEN mag_ext[SetMin(gdv)] ELSE mag_ext[i]],
             warn |-> "Extrapolating at low wavelengths"]
       ELSE IF SetMax(gdv) # Len(mag_ext)
       THEN [mag_ext |-> [i \in Idx(mag_ext) |->
                            IF i > SetMax(gdv) THEN mag_ext[SetMax(gdv)] ELSE mag_ext[i]],
             warn |-> "Extrapolating at high wavelengths"]
       ELSE [mag_ext |-> mag_ext, warn |-> ""]

airmass_bad_mut(airmass) == Le(airmass, Num(1))

\* The check of extinction_correction: airmass < 1.
airmass_bad(airmass) == Lt(airmass, Num(1))

\* extinction_correction(wave, airmass, extinct)
extinction_correction(wave, airmass, extinct) ==
    IF airmass_bad(airmass)
    THEN msgs_error("Bad airmass value in extinction_correction")
    ELSE IF extinct = None
    THEN Raised("TypeError", "'NoneType' object is not subscriptable")
    ELSE LET tbl == Val(extinct)
             interp == [i \in Idx(wave) |->
                          Interp1dFill(tbl.wave, tbl.mag_ext, wave[i], Zero)]
             edges == extinct_edges(interp)
         IN [status |-> "ok",
             interp |-> interp,
             mag_ext |-> edges.mag_ext,
             warn |-> edges.warn,
             flux_corr |-> [i \in Idx(wave) |->
                 Pow10(Mul(Mul(Dec(4, -1), edges.mag_ext[i]), airmass))]]

(***************************************************************************)
(* The calibration applier.                                                *)
(***************************************************************************)
\* The threshold of the telluric division, 1e-10, as mantissa and exponent.
TELL_FLOOR_EXP == -10

TELL_FLOOR == Dec(1, TELL_FLOOR_EXP)

\* telluric + (telluric < 1e-10), at one pixel.
telluric_denominator(telluric) == Add(telluric, BoolNum(Lt(telluric, TELL_FLOOR)))

\* sensfunc*(telluric > 1e-10)/(telluric + (telluric < 1e-10)), at one pixel.
telluric_divide(sensfunc, telluric) ==
    Div(Mul(sensfunc, BoolNum(Gt(telluric, TELL_FLOOR))),
        telluric_denominator(telluric))

\* The extinction branch shared by apply_sensfunc_spec and apply_sensfunc:
\* senstot, or the exception raised on the way.
apply_extinction(wave, sensfunc, airmass, extinct_correct, longitude, latitude) ==
    IF ~ extinct_correct THEN [status |-> "ok", senstot |-> sensfunc]
    ELSE IF longitude = None \/ latitude = None
    THEN msgs_error("You must specify longitude and latitude if we are extinction correcting")
    ELSE LET extinct == load_extinction_data(Val(longitude), Val(latitude))
             ext_corr == extinction_correction(wave, airmass, extinct)
         IN IF ext_corr.status # "ok" THEN ext_corr
            ELSE [status |-> "ok",
                  senstot |-> [i \in Idx(wave) |-> Mul(sensfunc[i], ext_corr.flux_corr[i])]]

\* flam = counts * senstot / exptime, at one pixel.
flam_of(counts, senstot, exptime) == Div(Mul(counts, senstot), exptime)

flam_ivar_of_mut(ivar, senstot, exptime) == Div(ivar, Div(senstot, exptime))

\* flam_ivar = ivar / (senstot / exptime) ** 2, at one pixel.
flam_ivar_of(ivar, senstot, exptime) ==
    LET q == Div(senstot, exptime) IN Div(ivar, Mul(q, q))

outmask_of_mut(mask, senstot) == Gt(senstot, Zero)

\* outmask = mask & (senstot > 0.), at one pixel.
outmask_of(mask, senstot) == mask /\ Gt(senstot, Zero)

apply_telluric_mut(sensfunc, telluric) ==
    IF telluric = None THEN sensfunc
    ELSE [i \in Idx(sensfunc) |->
            Div(sensfunc[i],
                IF Lt(Val(telluric)[i], TELL_FLOOR) THEN TELL_FLOOR ELSE Val(telluric)[i])]

\* The telluric branch of the appliers.
apply_telluric(sensfunc, telluric) ==
    IF telluric = None THEN sensfunc
    ELSE [i \in Idx(sensfunc) |-> telluric_divide(sensfunc[i], Val(telluric)[i])]

\* mask = ivar > 0.0 when no mask is passed.
input_mask(mask, ivar) ==
    IF mask = None THEN [i \in Idx(ivar) |-> Gt(ivar[i], Zero)] ELSE Val(mask)

\* What apply_sensfunc_spec returns once senstot is known.
apply_sensfunc_spec_result(a, mask, ext) ==
    IF ext.status # "ok" THEN ext
    ELSE [status |-> "ok",
          senstot |-> ext.senstot,
          mask |-> mask,
          flam |-> [i \in Idx(a.counts) |->
                      flam_of(a.counts[i], ext.senstot[i], a.exptime)],
          flam_ivar |-> [i \in Idx(a.counts) |->
                      flam_ivar_of(a.ivar[i], ext.senstot[i], a.exptime)],
          outmask |-> [i \in Idx(a.counts) |-> outmask_of(mask[i], ext.senstot[i])]]

\* apply_sensfunc_spec(wave, counts, ivar, sensfunc, airmass, exptime, mask,
\*                     extinct_correct, telluric, longitude, latitude)
apply_sensfunc_spec(a) ==
    apply_sensfunc_spec_result(a, input_mask(a.mask, a.ivar),
        apply_extinction(a.wave, apply_telluric(a.sensfunc, a.telluric), a.airmass,
                         a.extinct_correct, a.longitude, a.latitude))

\* msk of apply_sensfunc at one pixel: senstot <= 0 or COUNTS_IVAR <= 0.
apply_sensfunc_msk(senstot, ivar) == Le(senstot, Zero) \/ Le(ivar, Zero)

\* x[msk] = 0., at one pixel.
masked(msk, v) == IF msk THEN Zero ELSE v

\* What one pass of the loop of apply_sensfunc stores: FLAM, FLAM_SIG, FLAM_IVAR.
apply_sensfunc_store(extract, exptime, ext) ==
    IF ext.status # "ok" THEN ext
    ELSE [status |-> "ok",
          senstot |-> ext.senstot,
          FLAM |-> [i \in Idx(extract.WAVE) |->
              masked(apply_sensfunc_msk(ext.senstot[i], extract.COUNTS_IVAR[i]),
                     flam_of(extract.COUNTS[i], ext.senstot[i], exptime))],
          FLAM_SIG |-> [i \in Idx(extract.WAVE) |->
              masked(apply_sensfunc_msk(ext.senstot[i], extract.COUNTS_IVAR[i]),
                     Div(Div(ext.senstot[i], exptime), Sqrt(extract.COUNTS_IVAR[i])))],
          FLAM_IVAR |-> [i \in Idx(extract.WAVE) |->
              masked(apply_sensfunc_msk(ext.senstot[i], extract.COUNTS_IVAR[i]),
                     flam_ivar_of(extract.COUNTS_IVAR[i], ext.senstot[i], exptime))]]

\* sensfunc_obs: the sensitivity, telluric-divided, interpolated onto wave.
sensfunc_obs_of(wave, sens_dict, sensfunc) ==
    [i \in Idx(wave) |-> Interp1dExtrapolate(sens_dict.wave, sensfunc, wave[i])]

\* One pass of the loop of apply_sensfunc, over one extraction; an empty
\* extraction is skipped.
apply_sensfunc_extract(x, a) ==
    IF x = None THEN [status |-> "skipped"]
    ELSE apply_sensfunc_store(Val(x), a.exptime,
            apply_extinction(Val(x).WAVE,
                sensfunc_obs_of(Val(x).WAVE, a.sens_dict,
                    apply_telluric(a.sens_dict.sensfunc,
                        IF a.telluric_correct THEN a.sens_dict.telluric ELSE None)),
                a.airmass, a.extinct_correct, a.longitude, a.latitude))

\* The loop of apply_sensfunc after the boxcar pass: an exception there ends
\* the call, else the optimal pass follows.
apply_sensfunc_loop(box, a) ==
    IF box.status = "raised"
    THEN [status |-> "raised", error |-> box.error, boxcar |-> box,
          optimal |-> [status |-> "not reached"]]
    ELSE [status |-> "ok", boxcar |-> box,
          optimal |-> apply_sensfunc_extract(a.spec_obj.optimal, a)]

apply_sensfunc_end(r) ==
    IF r.optimal.status = "raised"
    THEN [r EXCEPT !.status = "raised"] @@ [error |-> r.optimal.error]
    ELSE r

\* apply_sensfunc(spec_obj, sens_dict, airmass, exptime, ...): the loop over
\* the extraction modes, boxcar then optimal.
apply_sensfunc(a) ==
    apply_sensfunc_end(apply_sensfunc_loop(apply_sensfunc_extract(a.spec_obj.boxcar, a), a))

(***************************************************************************)
(* The standard-star resolver.  The three catalogs (xshooter_info.txt,     *)
(* calspec_info.txt, esofil_info.txt) are data of the package and an       *)
(* argument of the model: std_sets[qq] is what std_sets[qq]() returns, a   *)
(* path and a table of rows Name, RA_2000, DEC_2000, File.  All stars and  *)
(* the object lie on the equator; RA_2000 is in hours, as the catalogs     *)
(* give it, and SkyCoord turns every coordinate into an angle, here in     *)
(* arcmin.                                                                 *)
(***************************************************************************)
std_file_source == <<"xshooter", "calspec", "eso">>

\* The default toler of find_standard_file, in arcmin.
STD_TOLER == 20

\* coordinates.SkyCoord(ra, dec, unit=(unit, deg)).ra, in arcmin.
SkyCoord(ra, unit) ==
    IF unit = "hourangle" THEN Mul(ra, Num(900)) ELSE Mul(ra, Num(60))

\* The SkyCoord of the object: degrees if float(ra) succeeds, else hours.
obj_coord(ra, ra_is_float) == SkyCoord(ra, IF ra_is_float THEN "deg" ELSE "hourangle")

star_coords(star_tbl) ==
    [i \in Idx(star_tbl) |-> SkyCoord(star_tbl[i].RA_2000, "hourangle")]

\* closest = dict(sep=999 * units.deg)
closest_init == [sep |-> Num(999 * 60), name |-> None, ra |-> None]

std_dict_of(std_sets, qq, idx) ==
    LET row == std_sets[qq].star_tbl[idx]
    IN [cal_file |-> <<std_sets[qq].path, row.File>>,
        name |-> row.Name,
        std_source |-> std_file_source[qq],
        std_ra |-> row.RA_2000,
        std_dec |-> row.DEC_2000]

\* d2d < toler
within_toler(d2d, toler) == Lt(d2d, toler)

closer_mut(mind2d, closest) == TRUE

\* mind2d < closest['sep']
closer(mind2d, closest) == Lt(mind2d, closest.sep)

first_set_mut(std_sets) == Len(std_sets)

\* The catalog the loop of find_standard_file starts with.
first_set(std_sets) == 1

next_set_mut(std_sets, qq) == qq - 1

\* The catalog the loop of find_standard_file goes on with.
next_set(std_sets, qq) == qq + 1

not_found_mut(check, closest) ==
    [status |-> "ok", kind |-> "None", found |-> FALSE, closest |-> closest]

\* After the loop: False in check mode, else None (with the closest
\* candidate reported).
not_found(check, closest) ==
    [status |-> "ok", kind |-> IF check THEN "bool" ELSE "None",
     found |-> FALSE, closest |-> closest]

\* The loop of find_standard_file from catalog qq on: every outcome the call
\* can end with (match_coordinates_sky may return any of several nearest rows).
RECURSIVE find_standard_loop(_, _, _, _, _, _)
find_standard_loop(std_sets, obj, toler, check, qq, closest) ==
    IF qq \notin Idx(std_sets)
    THEN {not_found(check, closest)}
    ELSE LET star_tbl == std_sets[qq].star_tbl
             coords == star_coords(star_tbl)
             step(idx) ==
                LET d2d == separation(obj, coords[idx])
                IN IF within_toler(d2d, toler)
                   THEN IF check
                        THEN {[status |-> "ok", kind |-> "bool", found |-> TRUE,
                               closest |-> closest]}
                        ELSE {[status |-> "ok", kind |-> "dict", found |-> TRUE,
                               std_dict |-> std_dict_of(std_sets, qq, idx),
                               sep |-> d2d, closest |-> closest]}
                   ELSE find_standard_loop(std_sets, obj, toler, check,
                            next_set(std_sets, qq),
                            IF closer(d2d, closest)
                            THEN [sep |-> d2d,
                                  name |-> Some(star_tbl[idx].Name),
                                  ra |-> Some(star_tbl[idx].RA_2000)]
                            ELSE closest)
         IN UNION {step(idx) : idx \in match_coordinates_sky(obj, coords)}

\* find_standard_file(ra, dec, toler, check): the set of its possible outcomes.
find_standard_file(a) ==
    find_standard_loop(a.std_sets, obj_coord(a.ra, a.ra_is_float), a.toler, a.check,
                       first_set(a.std_sets), closest_init)

(***************************************************************************)
(* standard_sensfunc: the stage that sets the breakpoint spacing of the    *)
(* spline fit (telluric=False).                                            *)
(***************************************************************************)
\* The k-th smallest element of the array s.
Ranked(s, k) ==
    CHOOSE x \in {s[i] : i \in Idx(s)} :
        /\ Cardinality({i \in Idx(s) : Lt(s[i], x)}) < k
        /\ Cardinality({i \in Idx(s) : Le(s[i], x)}) >= k

\* np.median
Median(s) ==
    LET n == Len(s)
    IN IF n % 2 = 1 THEN Ranked(s, (n + 1) \div 2)
       ELSE Div(Add(Ranked(s, n \div 2), Ranked(s, (n \div 2) + 1)), Num(2))

\* np.roll(s, 1)
Roll1(s) == [i \in Idx(s) |-> IF i = 1 THEN s[Len(s)] ELSE s[i - 1]]

\* nresln = std_res / std_pix
new_nresln(std_res, std_pix) == Div(std_res, std_pix)

\* std_pix, std_res, the nresln in use and kwargs_bspline['bkspace'].
bspline_bkspace(wave_obs, resolution, nresln) ==
    LET std_pix == Median([i \in Idx(wave_obs) |->
                              NumAbs(Sub(wave_obs[i], Roll1(wave_obs)[i]))])
        std_res == Median([i \in Idx(wave_obs) |-> Div(wave_obs[i], resolution)])
        too_fine == Lt(Mul(nresln, std_res), std_pix)
        nresln_used == IF too_fine THEN new_nresln(std_res, std_pix) ELSE nresln
    IN [status |-> "ok", std_pix |-> std_pix, std_res |-> std_res,
        warned |-> too_fine, nresln |-> nresln_used,
        bkspace |-> Mul(std_res, nresln_used)]

(***************************************************************************)
(* The stellar model synthesizer: telluric_params and telluric_sed.  The   *)
(* Schmidt-Kaler table (schmidt-kaler_table.txt) is data of the package    *)
(* and an argument of the model: a sequence of rows Sp, logTeff, Teff,     *)
(* M_V, M_bol.                                                             *)
(***************************************************************************)
\* logg_sol = log10(6.67259e-8) + log10(1.989e33) - 2 log10(6.96e10), to
\* four decimals.
LOGG_SOL == Dec(44377, -4)

not_unique_mut(mti) == Cardinality(mti) = 0

\* len(mti) != 1
not_unique(mti) == Cardinality(mti) # 1

\* The quantities telluric_params computes from row r of the table.
tell_param_of(r) ==
    [status |-> "ok",
     logR |-> Mul(Dec(2, -1), Sub(Sub(Dec(4226, -2), r.M_bol), Mul(Num(10), r.logTeff))),
     logM |-> Sub(Dec(46, -2), Mul(Dec(1, -1), r.M_bol)),
     logg |-> Add(Sub(Sub(Dec(46, -2), Mul(Dec(1, -1), r.M_bol)),
                      Mul(Num(2), Mul(Dec(2, -1),
                          Sub(Sub(Dec(4226, -2), r.M_bol), Mul(Num(10), r.logTeff))))),
                  LOGG_SOL),
     M_V |-> r.M_V,
     T |-> r.Teff]

\* telluric_params(sptype), with the table it reads.
telluric_params(sptype, sk82_tab) ==
    LET mti == {i \in Idx(sk82_tab) : sk82_tab[i].Sp = sptype}
    IN IF not_unique(mti)
       THEN Raised("ValueError", "Not ready to interpolate yet.")
       ELSE tell_param_of(sk82_tab[SetMin(mti)])

\* constants.R_sun.cgs / constants.pc.cgs (6.96e10 / 3.086e18), to one
\* figure.
RSOL_OVER_PC == Dec(2, -8)

\* The effective temperatures of the Kurucz grid: T1, T2, T3, T4.
KuruczT ==
    [i \in 1..63 |->
        IF i <= 28 THEN 3000 + (i - 1) * 250
        ELSE IF i <= 34 THEN 10000 + (i - 29) * 500
        ELSE IF i <= 56 THEN 13000 + (i - 35) * 1000
        ELSE 35000 + (i - 57) * 2500]

\* np.argmin(np.abs(grid - v)): the first index of the least distance.
ArgminAbs(grid, v) ==
    SetMin({i \in Idx(grid) :
               \A j \in Idx(grid) :
                   Le(NumAbs(Sub(grid[i], v)), NumAbs(Sub(grid[j], v)))})

\* The Kurucz SED read by telluric_sed from kp00_<T>.fits.gz, column g<nn>:
\* surface flux densities on a wavelength grid.
kurucz_sed(T, indg) ==
    [WAVELENGTH |-> NumSeq(<<3000, 5000, 7000>>),
     flux |-> <<Dec(25, 6), Dec(25, 6), Dec(25, 6)>>]

\* telluric_sed(V, sptype): the wavelengths, the SED scaled to the flux
\* observed on Earth, and the grid point used; or the exception of
\* telluric_params.  np.log10 followed by 10 ** is taken to give the
\* wavelengths back.
telluric_sed(V, sptype, sk82_tab) ==
    LET tell_param == telluric_params(sptype, sk82_tab)
    IN IF tell_param.status # "ok" THEN tell_param
       ELSE LET logd == Add(Mul(Dec(2, -1), Sub(V, tell_param.M_V)), Num(1))
                R_over_D == Mul(RSOL_OVER_PC, Pow10(Sub(tell_param.logR, logd)))
                flux_factor == Mul(R_over_D, R_over_D)
                indT == ArgminAbs(NumSeq(KuruczT), tell_param.T)
                indg == ArgminAbs([i \in 1..11 |-> Mul(Num(i - 1), Dec(5, -1))],
                                  tell_param.logg)
                std == kurucz_sed(KuruczT[indT], indg)
            IN [status |-> "ok",
                Tk |-> KuruczT[indT],
                indg |-> indg - 1,
                star_lam |-> std.WAVELENGTH,
                star_flux |-> [i \in Idx(std.flux) |-> Mul(std.flux[i], flux_factor)]]

(***************************************************************************)
(* get_standard_spectrum and the archive.  The spectra on disk             *)
(* (data/standards/...) are data of the package: every catalog row has its *)
(* file, of two columns.  The spectra of the model are flat, and powers of *)
(* ten, so that their logarithms are exact.                                *)
(***************************************************************************)
PYPEIT_FLUX_SCALE == Dec(1, -17)

\* The two columns of the archived spectrum of a catalog row.  The calspec
\* spectra of the model fall to zero at their red end.
archive_spec(cal_file) ==
    IF cal_file[1] = "calspec/"
    THEN [col1 |-> NumSeq(<<3000, 6500, 7000>>),
          col2 |-> <<Dec(1, -16), Dec(1, -16), Zero>>]
    ELSE [col1 |-> NumSeq(<<3000, 5000, 7000>>),
          col2 |-> <<Dec(1, -16), Dec(1, -16), Dec(1, -16)>>]

\* load_standard_file(std_dict): wave and flux are filled in place; the ESO
\* files are not rescaled.
load_standard_file(std_dict) ==
    LET std_spec == archive_spec(std_dict.cal_file)
    IN [cal_file |-> std_dict.cal_file,
        name |-> std_dict.name,
        std_source |-> std_dict.std_source,
        std_ra |-> Some(std_dict.std_ra),
        std_dec |-> Some(std_dict.std_dec),
        wave |-> std_spec.col1,
        flux |-> [i \in Idx(std_spec.col2) |->
                    IF std_dict.std_source = "eso" THEN std_spec.col2[i]
                    ELSE Div(std_spec.col2[i], PYPEIT_FLUX_SCALE)]]

\* vega_tspectool_vacuum.dat: the model of Vega, V = 0.03.
vega_data == [col1 |-> NumSeq(<<3000, 5000, 7000>>),
              col2 |-> <<Dec(1, -15), Dec(1, -15), Dec(1, -15)>>]

\* 'A0' in star_type
is_A0(star_type) == star_type \in {"A0", "A0V"}

\* The branch of get_standard_spectrum for a star type and a magnitude.
model_spectrum(star_type, star_mag, sk82_tab) ==
    IF is_A0(star_type)
    THEN [status |-> "ok",
          std_dict |->
            [cal_file |-> <<"vega_tspectool_vacuum">>, name |-> <<star_type>>,
             std_source |-> "vega", std_ra |-> None, std_dec |-> None,
             wave |-> vega_data.col1,
             flux |-> [i \in Idx(vega_data.col2) |->
                Div(Mul(vega_data.col2[i],
                        Pow10(Mul(Dec(4, -1), Sub(Dec(3, -2), star_mag)))),
                    PYPEIT_FLUX_SCALE)]]]
    ELSE LET sed == telluric_sed(star_mag, star_type, sk82_tab)
         IN IF sed.status # "ok" THEN sed
            ELSE [status |-> "ok",
                  std_dict |->
                    [cal_file |-> <<"KuruczTelluricModel">>, name |-> <<star_type>>,
                     std_source |-> "KuruczModel", std_ra |-> None, std_dec |-> None,
                     wave |-> sed.star_lam,
                     flux |-> [i \in Idx(sed.star_flux) |->
                                 Div(sed.star_flux[i], PYPEIT_FLUX_SCALE)]]]

archive_spectrum_mut(r) == model_spectrum("A0", Dec(253, -2), <<>>)

\* The branch of get_standard_spectrum for coordinates alone: one outcome of
\* find_standard_file(ra, dec), loaded, or the error for None.
archive_spectrum(r) ==
    IF r.kind = "dict"
    THEN [status |-> "ok", std_dict |-> load_standard_file(r.std_dict)]
    ELSE msgs_error("No spectrum found in our database for your standard star.")

\* (ra is not None) and (dec is not None) and (star_mag is None) and
\* (star_type is None)
coords_only(a) ==
    a.ra # None /\ a.dec # None /\ a.star_mag = None /\ a.star_type = None

\* (star_mag is not None) and (star_type is not None)
type_and_mag(a) == a.star_mag # None /\ a.star_type # None

\* get_standard_spectrum(star_type, star_mag, ra, dec): the set of its
\* possible outcomes.
get_standard_spectrum(a) ==
    IF coords_only(a)
    THEN {archive_spectrum(r) :
            r \in find_standard_file([std_sets |-> a.std_sets, ra |-> Val(a.ra),
                                      ra_is_float |-> a.ra_is_float,
                                      toler |-> Num(STD_TOLER), check |-> FALSE])}
    ELSE IF type_and_mag(a)
    THEN {model_spectrum(Val(a.star_type), Val(a.star_mag), a.sk82_tab)}
    ELSE {msgs_error("Insufficient information provided for fluxing.")}

(***************************************************************************)
(* get_mask: the three masks of the observed standard (True = good).  The  *)
(* sky transmission, convolved to the resolution of the spectrum and       *)
(* interpolated onto its wavelengths (trans_final), comes from a data file *)
(* and pypeit.wavemodel.conv2res and is an argument of the model.          *)
(***************************************************************************)
\* wave_star <= 3000.0
atms_cutoff(w) == Le(w, Num(3000))

\* msk_bad at pixel i.
msk_bad_at(wave_star, flux_star, ivar_star, i) ==
    /\ ~ Le(ivar_star[i], Zero)
    /\ ~ Le(flux_star[i], Zero)
    /\ i # 1
    /\ i # Len(wave_star)
    /\ ~ atms_cutoff(wave_star[i])

\* lines_balm, lines_pasc, lines_brac and lines_pfund, in tenths of an
\* Angstrom.
lines_recomb ==
    <<38364, 39696, 38901, 41028, 41028, 43416, 48627, 54070, 65646, 82248, 82392,
      82036, 84403, 84696, 85048, 85477, 86008, 86674, 87529, 88652, 90174, 92290,
      95460, 100494, 109381, 128181, 187510,
      145840, 181740, 194460, 216550, 262520, 405120,
      227880, 329610, 373950, 465250, 745780>>

within_line_mut(w, line, BALM_MASK_WID) == Lt(NumAbs(Sub(w, line)), BALM_MASK_WID)

\* np.abs(wave_star - line) <= BALM_MASK_WID
within_line(w, line, BALM_MASK_WID) == Le(NumAbs(Sub(w, line)), BALM_MASK_WID)

\* msk_star at a pixel of wavelength w.
msk_star_at(w, mask_star, BALM_MASK_WID) ==
    ~ (mask_star /\ \E k \in Idx(lines_recomb) :
                        within_line(w, Dec(lines_recomb[k], -1), BALM_MASK_WID))

\* The five optical telluric bands.
tell_bands == <<<<6270, 6290>>, <<6850, 6960>>, <<7580, 7750>>, <<7160, 7340>>,
                <<8150, 8250>>>>

\* tell_opt at a pixel of wavelength w.
tell_opt(w) ==
    \E b \in Idx(tell_bands) :
        Ge(w, Num(tell_bands[b][1])) /\ Le(w, Num(tell_bands[b][2]))

\* np.max(wave_star) > 9100.0
reaches_nir(wave_star) == \E i \in Idx(wave_star) : Gt(wave_star[i], Num(9100))

tell_nir_mut(w, trans, trans_thresh) == Lt(trans, trans_thresh)

\* tell_nir = (trans_final < trans_thresh) & (wave_star > 9100.0), at a pixel.
tell_nir(w, trans, trans_thresh) == Lt(trans, trans_thresh) /\ Gt(w, Num(9100))

\* msk_tell at pixel i.
msk_tell_at(wave_star, mask_tell, trans_final, trans_thresh, i) ==
    ~ (mask_tell /\ (\/ tell_opt(wave_star[i])
                     \/ (reaches_nir(wave_star)
                            /\ tell_nir(wave_star[i], trans_final[i], trans_thresh))))

\* get_mask(wave_star, flux_star, ivar_star, mask_star, mask_tell,
\*          BALM_MASK_WID, trans_thresh)
get_mask(wave_star, flux_star, ivar_star, mask_star, mask_tell, BALM_MASK_WID, trans_thresh, trans_final) ==
    [status |-> "ok",
     msk_bad |-> [i \in Idx(wave_star) |-> msk_bad_at(wave_star, flux_star, ivar_star, i)],
     msk_star |-> [i \in Idx(wave_star) |->
                     msk_star_at(wave_star[i], mask_star, BALM_MASK_WID)],
     msk_tell |-> [i \in Idx(wave_star) |->
                     msk_tell_at(wave_star, mask_tell, trans_final, trans_thresh, i)]]

(***************************************************************************)
(* standard_sensfunc: the magnitude function, its masks, the polynomial    *)
(* and spline fits and the patches.  The fits are utils.robust_polyfit_djs *)
(* and pydl.iterfit; what they return is an argument of the model.         *)
(***************************************************************************)
TINY == Dec(1, -15)

MAGFUNC_MAX == 25

MAGFUNC_MIN == -25

\* np.maximum, np.minimum
NumMax(a, b) == IF IsNaN(a) \/ IsNaN(b) THEN NaN ELSE IF Lt(a, b) THEN b ELSE a

NumMin(a, b) == IF IsNaN(a) \/ IsNaN(b) THEN NaN ELSE IF Lt(b, a) THEN b ELSE a

\* np.log10 of a positive number; exact on the powers of ten.
Log10(x) ==
    IF ~ IsFinite(x) THEN x
    ELSE Num(CHOOSE k \in -40..40 : x = Dec(1, k))

\* 2.5 * np.log10(np.maximum(flux, TINY))
logflux(flux) == Mul(Dec(25, -1), Log10(NumMax(flux, TINY)))

clamp_mut(magfunc) == magfunc

\* np.maximum(np.minimum(magfunc, MAGFUNC_MAX), MAGFUNC_MIN)
clamp(magfunc) == NumMax(NumMin(magfunc, Num(MAGFUNC_MAX)), Num(MAGFUNC_MIN))

\* msk_magfunc at one pixel.
msk_magfunc(magfunc) ==
    /\ Lt(magfunc, Mul(Dec(99, -2), Num(MAGFUNC_MAX)))
    /\ Gt(magfunc, Mul(Dec(99, -2), Num(MAGFUNC_MIN)))

\* masktot at one pixel.
masktot_at(msk_bad, flux_obs, ivar_obs, flux_std) ==
    /\ msk_bad
    /\ msk_magfunc(clamp(Sub(logflux(flux_std), logflux(flux_obs))))
    /\ IsFinite(ivar_obs)
    /\ IsFinite(logflux(flux_obs))
    /\ IsFinite(logflux(flux_std))

\* magfunc, masktot and msk_fit_sens before any fit.
sensfunc_prepare(flux, ivar, flux_std, msk_bad, msk_star, msk_tell) ==
    [logflux_obs |-> [i \in Idx(flux) |-> logflux(flux[i])],
     logflux_std |-> [i \in Idx(flux) |-> logflux(flux_std[i])],
     magfunc |-> [i \in Idx(flux) |->
                    clamp(Sub(logflux(flux_std[i]), logflux(flux[i])))],
     masktot |-> [i \in Idx(flux) |->
                    masktot_at(msk_bad[i], flux[i], ivar[i], flux_std[i])],
     msk_fit_sens |-> [i \in Idx(flux) |->
                    /\ masktot_at(msk_bad[i], flux[i], ivar[i], flux_std[i])
                    /\ msk_tell[i]
                    /\ msk_star[i]]]

\* lines_hydrogen, in tenths of an Angstrom.
lines_hydrogen ==
    <<54070, 65646, 82248, 82392, 82036, 84403, 84696, 85048, 85477, 86008,
      86674, 87529, 88652, 90174, 92290, 100494, 109381, 128181, 216550>>

\* balmer_clean at a pixel of wavelength w.
balmer_clean(w, BALM_MASK_WID) ==
    \E k \in Idx(lines_hydrogen) :
        Le(NumAbs(Sub(w, Dec(lines_hydrogen[k], -1))), BALM_MASK_WID)

\* (sum(msk_fit_sens) > 0.5 * len(msk_fit_sens)) & polycorrect
polycorrect_on(msk_fit_sens, polycorrect) ==
    /\ 2 * Cardinality({i \in Idx(msk_fit_sens) : msk_fit_sens[i]}) > Len(msk_fit_sens)
    /\ polycorrect

\* magfunc at one pixel after the patch: the polynomial replaces it at the
\* pixels of msk_clean and at the pixels that are not in msk_badpix.
patched(magfunc, magfunc_poly, ivar_obs, in_line) ==
    IF \/ /\ (in_line \/ magfunc = Num(MAGFUNC_MAX) \/ magfunc = Num(MAGFUNC_MIN))
          /\ Gt(magfunc_poly, Num(MAGFUNC_MIN))
          /\ Lt(magfunc_poly, Num(MAGFUNC_MAX))
       \/ ~ (IsFinite(ivar_obs) /\ Gt(ivar_obs, Zero))
    THEN magfunc_poly
    ELSE magfunc

\* The patch after the polynomial fit, over the array.
patch_poly(wave, magfunc, magfunc_poly, ivar, msk_fit_sens, polycorrect, BALM_MASK_WID) ==
    IF polycorrect_on(msk_fit_sens, polycorrect)
    THEN [i \in Idx(wave) |->
            patched(magfunc[i], magfunc_poly[i], ivar[i],
                    balmer_clean(wave[i], BALM_MASK_WID))]
    ELSE magfunc

\* The patch after the spline fit, over the array.
patch_spline(magfunc, magfunc_poly, ivar, msk_fit_sens, polycorrect) ==
    IF polycorrect_on(msk_fit_sens, polycorrect)
    THEN [i \in Idx(magfunc) |-> patched(magfunc[i], magfunc_poly[i], ivar[i], FALSE)]
    ELSE magfunc

\* sensfunc = 10.0 ** (0.4 * magfunc)
sensfunc_of(magfunc) == [i \in Idx(magfunc) |-> Pow10(Mul(Dec(4, -1), magfunc[i]))]

\* The values a fit may take at a pixel: the floor, a value inside the
\* range, a value above the ceiling.
FitValues == {Num(MAGFUNC_MIN), Dec(25, -1), Num(30)}

(***************************************************************************)
(* generate_sensfunc, stage by stage.                                      *)
(***************************************************************************)
\* flux_star = counts / exptime, ivar_star = counts_ivar * exptime ** 2
generate_sensfunc_units(a) ==
    [status |-> "ok",
     flux_star |-> [i \in Idx(a.counts) |-> Div(a.counts[i], a.exptime)],
     ivar_star |-> [i \in Idx(a.counts) |->
                      Mul(a.counts_ivar[i], Mul(a.exptime, a.exptime))]]

\* The extinction correction of generate_sensfunc, applied to flux_star and
\* ivar_star, or the exception raised.
generate_sensfunc_extinct(a, st) ==
    LET extinct == load_extinction_data(a.longitude, a.latitude)
        ext_corr == extinction_correction(a.wave, a.airmass, extinct)
    IN IF ext_corr.status # "ok" THEN ext_corr
       ELSE [status |-> "ok",
             ext_corr |-> ext_corr.flux_corr,
             flux_star |-> [i \in Idx(a.wave) |->
                              Mul(st.flux_star[i], ext_corr.flux_corr[i])],
             ivar_star |-> [i \in Idx(a.wave) |->
                              Div(st.ivar_star[i],
                                  Mul(ext_corr.flux_corr[i], ext_corr.flux_corr[i]))]]

\* np.min(flux_true) <= 0. (np.min of an array with a NaN is NaN)
needs_refit(flux_true) ==
    /\ \A i \in Idx(flux_true) : ~ IsNaN(flux_true[i])
    /\ \E i \in Idx(flux_true) : Le(flux_true[i], Zero)

\* The values utils.func_val may give the refitted star model.
StarPolyValues == {Zero, Num(10)}

refit_replace_mut(flux_true, star_poly) ==
    [i \in Idx(flux_true) |-> IF Le(flux_true[i], Zero) THEN star_poly[i] ELSE flux_true[i]]

\* flux_true = star_poly.copy()
refit_replace(flux_true, star_poly) == star_poly

\* flux_true: the standard interpolated onto wave_star (flux_interp),
\* replaced by the polynomial of utils.robust_polyfit_djs (star_poly) when
\* it is not positive everywhere.
flux_true_of(std_dict, wave_star) ==
    LET flux_true == [i \in Idx(wave_star) |->
                        Interp1dExtrapolate(std_dict.wave, std_dict.flux, wave_star[i])]
    IN IF needs_refit(flux_true)
       THEN {[flux_interp |-> flux_true, star_poly |-> Some(star_poly),
              flux_true |-> refit_replace(flux_true, star_poly)] :
                star_poly \in Arrays(StarPolyValues, Len(wave_star))}
       ELSE {[flux_interp |-> flux_true, star_poly |-> None, flux_true |-> flux_true]}

\* One outcome r of get_standard_spectrum, taken up by generate_sensfunc.
generate_sensfunc_resolved(a, st, r) ==
    IF r.status # "ok" THEN {r}
    ELSE {[status |-> "ok", flux_star |-> st.flux_star, ivar_star |-> st.ivar_star,
           ext_corr |-> st.ext_corr, std_dict |-> r.std_dict] @@ f :
            f \in flux_true_of(r.std_dict, a.wave)}

\* The standard of generate_sensfunc: std_dict and flux_true, or the
\* exception raised.
generate_sensfunc_model(a, st) ==
    UNION {generate_sensfunc_resolved(a, st, r) : r \in get_standard_spectrum(a)}

\* The keywords of get_mask.
get_mask_keywords == {"mask_star", "mask_tell", "BALM_MASK_WID", "trans_thresh"}

get_mask_accepts_mut(keyword) == TRUE

\* Python raises TypeError on a keyword the function does not have.
get_mask_accepts(keyword) == keyword \in get_mask_keywords

\* The keyword under which the generator passes the line-mask flag.
mask_flag_keyword(op) ==
    IF op = "generate_sensfunc_old" THEN "mask_balmer" ELSE "mask_star"

masks_trans_thresh_mut(a) == a.trans_thresh

\* trans_thresh=0.9 in the call of get_mask.
masks_trans_thresh(a) == Dec(9, -1)

\* The atmospheric transmission get_mask derives for a pixel (the skycalc
\* model convolved to the resolution of the spectrum): absorbed beyond
\* 9100 Angstrom, clear below.
atm_trans(w) == IF Gt(w, Num(9100)) THEN Dec(7, -1) ELSE Num(1)

\* get_mask, as the generators call it.
generate_sensfunc_masks(a, st) ==
    IF ~ get_mask_accepts(mask_flag_keyword(a.op))
    THEN Raised("TypeError", "get_mask() got an unexpected keyword argument")
    ELSE LET m == get_mask(a.wave, st.flux_star, st.ivar_star, TRUE, TRUE,
                           a.BALM_MASK_WID, masks_trans_thresh(a),
                           [i \in Idx(a.wave) |-> atm_trans(a.wave[i])])
         IN [msk_bad |-> m.msk_bad, msk_star |-> m.msk_star,
             msk_tell |-> m.msk_tell] @@ st

\* standard_sensfunc up to the polynomial patch, the polynomial being
\* magfunc_poly.  magfunc_raw is the clamped log-ratio the polynomial is
\* fitted to; warned tells that the patch was skipped.
generate_sensfunc_poly(a, st, magfunc_poly) ==
    LET p == sensfunc_prepare(st.flux_star, st.ivar_star, st.flux_true,
                              st.msk_bad, st.msk_star, st.msk_tell)
    IN [magfunc |-> patch_poly(a.wave, p.magfunc, magfunc_poly, st.ivar_star,
                               p.msk_fit_sens, a.polycorrect, a.BALM_MASK_WID),
        magfunc_raw |-> p.magfunc,
        logflux_obs |-> p.logflux_obs,
        logflux_std |-> p.logflux_std,
        magfunc_poly |-> magfunc_poly,
        masktot |-> p.masktot,
        msk_fit_sens |-> p.msk_fit_sens,
        warned |-> ~ polycorrect_on(p.msk_fit_sens, a.polycorrect)] @@ st

\* The spline fit of standard_sensfunc: pydl.iterfit is given magfunc as it
\* stands (fit_input) and logfit1 is the spline on wave_obs, clamped.
generate_sensfunc_spline(a, st, logfit1) ==
    [magfunc |-> [i \in Idx(logfit1) |-> clamp(logfit1[i])],
     fit_input |-> st.magfunc,
     logfit1 |-> logfit1,
     bkspace |-> bspline_bkspace(a.wave, a.resolution, a.nresln).bkspace] @@ st

\* The patch after the spline fit, and the sensitivity function.
generate_sensfunc_patch(a, st) ==
    LET magfunc == IF a.telluric THEN st.magfunc
                   ELSE patch_spline(st.magfunc, st.magfunc_poly, st.ivar_star,
                                     st.msk_fit_sens, a.polycorrect)
    IN [magfunc |-> magfunc, before_patch |-> st.magfunc,
        sensfunc |-> sensfunc_of(magfunc),
        mask_sens |-> st.masktot] @@ st

\* np.min and np.max of an array of finite numbers.
np_min(a) == CHOOSE m \in {a[i] : i \in Idx(a)} : \A i \in Idx(a) : Le(m, a[i])

np_max(a) == CHOOSE m \in {a[i] : i \in Idx(a)} : \A i \in Idx(a) : Ge(m, a[i])

airmass_exptime_mut(airmass, exptime) == [exptime |-> airmass, airmass |-> exptime]

\* sens_dict['exptime'] and sens_dict['airmass']
airmass_exptime(airmass, exptime) == [exptime |-> exptime, airmass |-> airmass]

\* sens_dict
generate_sensfunc_package(a, st) ==
    [status |-> "ok",
     wave |-> a.wave,
     sensfunc |-> st.sensfunc,
     wave_min |-> np_min(a.wave),
     wave_max |-> np_max(a.wave),
     std_file |-> None,
     std_ra |-> st.std_dict.std_ra,
     std_dec |-> st.std_dict.std_dec,
     std_name |-> st.std_dict.name,
     cal_file |-> st.std_dict.cal_file,
     flux_true |-> st.flux_true,
     mask_sens |-> st.mask_sens] @@ airmass_exptime(a.airmass, a.exptime)

\* The states generate_sensfunc may be in once the standard is resolved.
generate_sensfunc_to_model(a) ==
    LET ext == generate_sensfunc_extinct(a, generate_sensfunc_units(a))
    IN IF ext.status # "ok" THEN {}
       ELSE {st \in generate_sensfunc_model(a, ext) : st.status = "ok"}

\* ... and once the polynomial is fitted.
generate_sensfunc_to_poly(a) ==
    {generate_sensfunc_poly(a, m, [i \in Idx(a.wave) |-> v]) :
        m \in {generate_sensfunc_masks(a, st) : st \in generate_sensfunc_to_model(a)},
        v \in FitValues}

\* ... and once the last fit is made.
generate_sensfunc_to_fit(a) ==
    IF a.telluric THEN generate_sensfunc_to_poly(a)
    ELSE {generate_sensfunc_spline(a, st, [i \in Idx(a.wave) |-> v]) :
            st \in generate_sensfunc_to_poly(a), v \in FitValues}

\* generate_sensfunc(...) as a whole: the records it may return.
generate_sensfunc(a) ==
    IF ~ get_mask_accepts(mask_flag_keyword(a.op)) THEN {}
    ELSE {generate_sensfunc_package(a, generate_sensfunc_patch(a, st)) :
            st \in generate_sensfunc_to_fit(a)}

(***************************************************************************)
(* The iteratively-rejecting fits standard_sensfunc calls:                 *)
(* utils.robust_polyfit_djs for the polynomial and pydl.iterfit for the    *)
(* spline, both with sticky rejection and maxiter iterations at most.      *)
(* Neither is part of the sources at hand; the loop is the one the         *)
(* specification describes: fit, reject the outliers of the fit, stop when *)
(* nothing new is rejected or after maxiter iterations, and return the fit *)
(* and the mask of the points kept.  Which points are outliers is an       *)
(* argument of the model.                                                  *)
(***************************************************************************)
reject_mut(thismask, inmask, outliers, sticky) ==
    [i \in Idx(inmask) |-> inmask[i] /\ i \notin outliers]

\* The mask after one rejection: with sticky rejection a point rejected
\* before stays rejected, without it every point of inmask is judged anew.
reject(thismask, inmask, outliers, sticky) ==
    [i \in Idx(inmask) |-> (IF sticky THEN thismask[i] ELSE inmask[i]) /\ i \notin outliers]

loop_continues_mut(qdone, iIter, maxiter) == ~ qdone

\* while (not qdone) and (iIter < maxiter)
loop_continues(qdone, iIter, maxiter) == ~ qdone /\ iIter < maxiter

\* The loop before its first iteration.
robust_fit_begin(a) ==
    [status |-> "ok", thismask |-> a.inmask, iIter |-> 0, qdone |-> FALSE,
     rejected |-> {}]

\* One iteration: the fit to the points of thismask has outliers as its
\* outliers; rejected gathers every point ever rejected.
robust_fit_iterate(a, st, outliers) ==
    LET newmask == reject(st.thismask, a.inmask, outliers, a.sticky)
    IN [status |-> "ok", thismask |-> newmask, iIter |-> st.iIter + 1,
        qdone |-> newmask = st.thismask,
        rejected |-> st.rejected \cup {i \in Idx(a.inmask) : st.thismask[i] /\ ~ newmask[i]}]

\* What the fit returns: the best fit so far and the inclusion mask.
robust_fit_return(a, st) == [outmask |-> st.thismask] @@ st

(***************************************************************************)
(* BitMask, as tests/test_bitmask.py uses it: ImageBitMask has the bits    *)
(* BPM, COSMIC and SATURATED, numbered from 0.  pypeit.bitmask itself is   *)
(* not part of the sources at hand; turn_on and flagged are modelled from  *)
(* what the tests expect of them.                                          *)
(***************************************************************************)
\* ImageBitMask().keys()
ImageBitMask_keys == <<"BPM", "COSMIC", "SATURATED">>

\* ImageBitMask().bits[flag]
bit_of(flag) == (CHOOSE k \in Idx(ImageBitMask_keys) : ImageBitMask_keys[k] = flag) - 1

RECURSIVE Pow2(_)
Pow2(k) == IF k = 0 THEN 1 ELSE 2 * Pow2(k - 1)

\* value & (1 << bit) != 0
bit_set(value, bit) == (value \div Pow2(bit)) % 2 = 1

\* flag in ImageBitMask().keys()
is_key(flag) == \E j \in Idx(ImageBitMask_keys) : flag = ImageBitMask_keys[j]

unknown_flags_mut(flag) == \A k \in Idx(flag) : ~ is_key(flag[k])

\* Some requested name is not a bit of the mask.
unknown_flags(flag) == \E k \in Idx(flag) : ~ is_key(flag[k])

\* BitMask.turn_on(value, flag) on one value.
turn_on(value, flag) ==
    IF bit_set(value, bit_of(flag)) THEN value ELSE value + Pow2(bit_of(flag))

\* BitMask.flagged(value, flag=flag) over an array.
flagged(value, flag) ==
    IF unknown_flags(flag)
    THEN Raised("ValueError", "unknown flag")
    ELSE [status |-> "ok",
          value |-> [i \in Idx(value) |->
                        \E k \in Idx(flag) :
                            is_key(flag[k]) /\ bit_set(value[i], bit_of(flag[k]))]]

\* mask[cosmics_indx] = image_bm.turn_on(mask[cosmics_indx], 'COSMIC'), on
\* a mask of zeros.
test_wrong_bits_mask(cosmics_indx) ==
    [i \in Idx(cosmics_indx) |-> IF cosmics_indx[i] THEN turn_on(0, "COSMIC") ELSE 0]

(***************************************************************************)
(* The calls of the model.                                                 *)
(***************************************************************************)
\* The longest pixel array given to the appliers.
MaxPix == 3

\* The longest wavelength array given to extinction_correction.
MaxWave == 3

\* The most rows of a standard-star catalog.
MaxStars == 2

\* The length of the spectrum given to standard_sensfunc.
SensPix == 3

Lengths(max) == 1..max

\* The wavelengths (Angstrom) the model's spectra are sampled at.
WAVES == <<3000, 4000, 5000, 6000, 7000>>

WaveGrids(len) == {[i \in 1..len |-> Num(WAVES[g[i]])] : g \in IncSeqs(1, Len(WAVES), len)}

FirstGrid(len) == [i \in 1..len |-> Num(WAVES[i])]

Longitudes == {Num(10), Num(14), Num(15), Num(28)}

Airmasses == {Dec(5, -1), Num(1), Num(2)}

Tellurics == {Num(-1), Zero, TELL_FLOOR, Dec(5, -1)}

Const(v, len) == [i \in 1..len |-> v]

ApplierBase(len) ==
    [op |-> "apply_sensfunc_spec", wave |-> FirstGrid(len),
     counts |-> Const(Num(10), len), ivar |-> Const(Num(1), len),
     sensfunc |-> Const(Num(2), len), airmass |-> Num(1), exptime |-> Num(1),
     mask |-> None, extinct_correct |-> FALSE, telluric |-> None,
     longitude |-> None, latitude |-> None]

\* Counts, inverse variances, sensitivities and exposure times.
PlainCalls ==
    \E len \in Lengths(MaxPix) :
        \E c \in Arrays({Num(-5), Num(10), Num(20)}, len),
           v \in Arrays({Zero, Num(1)}, len),
           f \in {Const(Zero, len), Const(Num(2), len)},
           t \in {Num(1), Num(2)} :
            call = [ApplierBase(len) EXCEPT !.counts = c, !.ivar = v,
                                            !.sensfunc = f, !.exptime = t]

\* A mask is passed.
MaskCalls ==
    \E len \in Lengths(MaxPix) :
        \E m \in Arrays(BOOLEAN, len),
           v \in Arrays({Zero, Num(1)}, len),
           f \in Arrays({Zero, Num(2)}, len) :
            call = [ApplierBase(len) EXCEPT !.mask = Some(m), !.ivar = v,
                                            !.sensfunc = f]

\* A telluric transmission is passed.
TelluricCalls ==
    \E len \in Lengths(MaxPix) :
        \E t \in Arrays(Tellurics, len),
           f \in Arrays({Num(-1), Num(2)}, len) :
            call = [ApplierBase(len) EXCEPT !.telluric = Some(t), !.sensfunc = f]

\* The extinction correction is on.
ExtinctCalls ==
    \E len \in Lengths(MaxWave) :
        \E w \in WaveGrids(len),
           lon \in {None} \cup {Some(x) : x \in Longitudes},
           am \in Airmasses,
           t \in {None, Some(Const(Dec(5, -1), len))},
           m \in {None, Some(Const(FALSE, len))} :
            call = [ApplierBase(len) EXCEPT !.extinct_correct = TRUE, !.wave = w,
                                            !.longitude = lon, !.latitude = Some(Zero),
                                            !.airmass = am, !.telluric = t, !.mask = m]

Extracts ==
    UNION {{[WAVE |-> w, COUNTS |-> Const(Num(10), len), COUNTS_IVAR |-> v] :
              w \in {FirstGrid(len)}, v \in Arrays({Zero, Num(4)}, len)} :
           len \in Lengths(MaxPix)}

FixedExtract ==
    [WAVE |-> NumSeq(<<4000, 5000, 6000>>), COUNTS |-> NumSeq(<<10, -5, 20>>),
     COUNTS_IVAR |-> NumSeq(<<1, -1, 0>>)]

SensDicts ==
    {[wave |-> NumSeq(<<4000, 6000>>), sensfunc |-> f, telluric |-> t] :
        f \in {NumSeq(<<2, 2>>), NumSeq(<<2, 0>>)},
        t \in {None, Some(<<Dec(5, -1), Zero>>), Some(<<Num(-1), TELL_FLOOR>>)}}

ApplyCalls ==
    \E b \in {None} \cup {Some(x) : x \in Extracts},
       o \in {None, Some(FixedExtract)},
       sd \in SensDicts,
       tc \in BOOLEAN,
       e \in {[on |-> FALSE, airmass |-> Num(1), longitude |-> None]}
             \cup {[on |-> TRUE, airmass |-> am, longitude |-> lon] :
                     am \in {Dec(5, -1), Num(1)},
                     lon \in {None, Some(Num(10)), Some(Num(15))}} :
        call = [op |-> "apply_sensfunc",
                spec_obj |-> [boxcar |-> b, optimal |-> o], sens_dict |-> sd,
                airmass |-> e.airmass, exptime |-> Num(2),
                extinct_correct |-> e.on, telluric_correct |-> tc,
                longitude |-> e.longitude, latitude |-> Some(Zero)]

ExtTables == {None} \cup {Some(extinct_table(extinct_files[i].File)) : i \in Idx(extinct_files)}

ExtinctionCorrectionCalls ==
    \E len \in Lengths(MaxWave) :
        \E w \in WaveGrids(len), am \in Airmasses, x \in ExtTables :
            call = [op |-> "extinction_correction", wave |-> w, airmass |-> am,
                    extinct |-> x]

LoadExtinctionCalls ==
    \E l \in {0, 5, 6, 10, 14, 15, 20, 25, 26, 35, 36} :
        call = [op |-> "load_extinction_data", longitude |-> Num(l), latitude |-> Zero]

\* The right ascensions of the catalog stars, in minutes of time.
StarRAs == <<0, 1, 2, 4>>

Catalog(tag, g) ==
    [path |-> tag,
     star_tbl |-> [i \in Idx(g) |->
                     [Name |-> <<tag, i>>, RA_2000 |-> Mk(StarRAs[g[i]], 60, 0),
                      DEC_2000 |-> Zero, File |-> <<tag, i, ".fits">>]]]

Catalogs(tag) ==
    UNION {{Catalog(tag, g) : g \in IncSeqs(1, Len(StarRAs), len)} :
           len \in Lengths(MaxStars)}

FindCalls ==
    \E x \in Catalogs("xshooter/"), c \in Catalogs("calspec/"), e \in Catalogs("ESOFIL/"),
       q \in {[ra |-> r, f |-> TRUE] : r \in {Zero, Mk(1, 4, 0), Mk(1, 3, 0), Num(1)}}
             \cup {[ra |-> Mk(1, 60, 0), f |-> FALSE]},
       chk \in BOOLEAN :
        call = [op |-> "find_standard_file",
                std_sets |-> <<x, c, e>>, ra |-> q.ra, ra_is_float |-> q.f,
                dec |-> Zero, toler |-> Num(STD_TOLER), check |-> chk]

SensfuncCalls ==
    \E base \in {2995, 6000}, step \in {1, 5}, res \in {3000, 30000},
       n \in {Dec(1, -2), Num(1), Num(20)}, tell \in BOOLEAN :
        call = [op |-> "standard_sensfunc",
                wave |-> [i \in 1..SensPix |-> Num(base + (i - 1) * step)],
                resolution |-> Num(res), nresln |-> n, telluric |-> tell]

Sk82Row(sp, logTeff, Teff, M_V, M_bol) ==
    [Sp |-> sp, logTeff |-> logTeff, Teff |-> Num(Teff), M_V |-> M_V, M_bol |-> M_bol]

\* Tables of spectral types: one row per type, and one with a type twice.
Sk82Unique ==
    <<Sk82Row("B5", Dec(42, -1), 15400, Dec(-247, -2), Dec(-474, -2)),
      Sk82Row("A5", Num(4), 8200, Dec(253, -2), Dec(226, -2))>>

Sk82Tables ==
    {Sk82Unique,
     Sk82Unique \o <<Sk82Row("B5", Dec(41, -1), 15000, Dec(-1, 0), Dec(-2, 0))>>}

SpTypes == {"B5", "A5", "G2", "A"}

TelluricParamsCalls ==
    \E sp \in SpTypes, tab \in Sk82Tables :
        call = [op |-> "telluric_params", sptype |-> sp, sk82_tab |-> tab]

\* Catalogs of one star each, at the first or the last right ascension.
StdTriples ==
    {<<Catalog("xshooter/", <<x>>), Catalog("calspec/", <<c>>), Catalog("ESOFIL/", <<e>>)>> :
        x \in {1, Len(StarRAs)}, c \in {1, Len(StarRAs)}, e \in {1, Len(StarRAs)}}

\* The star as the caller may describe it: by type, magnitude, coordinates.
StarInfos ==
    {[star_type |-> st, star_mag |-> sm, ra |-> ra, dec |-> dec, ra_is_float |-> TRUE] :
        st \in {None, Some("A0"), Some("A5"), Some("G2")},
        sm \in {None, Some(Dec(253, -2))},
        ra \in {None, Some(Zero), Some(Mk(1, 3, 0))},
        dec \in {None, Some(Zero)}}

GetStandardCalls ==
    \E info \in StarInfos, sets \in StdTriples :
        call = [op |-> "get_standard_spectrum", std_sets |-> sets,
                sk82_tab |-> Sk82Unique] @@ info

StarInfo(st, sm, ra, dec) ==
    [star_type |-> st, star_mag |-> sm, ra |-> ra, dec |-> dec, ra_is_float |-> TRUE]

\* The stars generate_sensfunc is called with.
GenerateStars ==
    {StarInfo(None, None, Some(Zero), Some(Zero)),
     StarInfo(None, None, Some(Mk(1, 3, 0)), Some(Zero)),
     StarInfo(Some("A0"), Some(Dec(253, -2)), None, None),
     StarInfo(Some("A5"), Some(Dec(253, -2)), None, None),
     StarInfo(Some("G2"), Some(Dec(253, -2)), None, None),
     StarInfo(None, None, None, None),
     StarInfo(None, Some(Dec(253, -2)), Some(Zero), Some(Zero)),
     StarInfo(Some("A0"), Some(Dec(253, -2)), Some(Mk(1, 3, 0)), Some(Zero))}

GenerateSets ==
    {sets \in StdTriples :
        \A qq \in 1..2 : sets[qq].star_tbl[1].RA_2000 = Zero
                            => sets[qq + 1].star_tbl[1].RA_2000 = Zero}

GenerateCalls ==
    \E w \in WaveGrids(MaxWave), am \in Airmasses, t \in {Num(10)},
       lon \in {Num(10), Num(15)}, info \in GenerateStars,
       sets \in GenerateSets, telluric \in BOOLEAN :
        call = [op |-> "generate_sensfunc", wave |-> w,
                counts |-> Const(Num(10), Len(w)), counts_ivar |-> Const(Num(1), Len(w)),
                airmass |-> am, exptime |-> t, longitude |-> lon, latitude |-> Zero,
                telluric |-> telluric, BALM_MASK_WID |-> Num(5), nresln |-> Num(20),
                resolution |-> Num(3000), trans_thresh |-> Dec(9, -1),
                polycorrect |-> TRUE,
                std_sets |-> sets, sk82_tab |-> Sk82Unique] @@ info

\* The spectra standard_sensfunc patches: five pixels, so that more than
\* half can pass the fit mask, in the optical or reaching the near
\* infrared; an edge pixel may have no variance or no counts.
FitGrids == {NumSeq(<<3000, 4000, 5000, 6000, 7000>>),
             NumSeq(<<3000, 4000, 5000, 9500, 10000>>)}

\* Catalogs where the first has the star asked for.
FitSets == CHOOSE sets \in GenerateSets : sets[1].star_tbl[1].RA_2000 = Zero

FitCalls ==
    \E w \in FitGrids, iv \in {Num(1), Zero}, cn \in {Num(10), Zero},
       tt \in {Dec(9, -1), Dec(5, -1)}, telluric \in BOOLEAN, pcor \in BOOLEAN,
       op \in {"generate_sensfunc", "generate_sensfunc_old"} :
        call = [op |-> op, wave |-> w,
                counts |-> [i \in Idx(w) |-> IF i = Len(w) THEN cn ELSE Num(10)],
                counts_ivar |-> [i \in Idx(w) |-> IF i = 1 THEN iv ELSE Num(1)],
                airmass |-> Num(1), exptime |-> Num(1), longitude |-> Num(10),
                latitude |-> Zero,
                telluric |-> telluric, BALM_MASK_WID |-> Num(5), nresln |-> Num(20),
                resolution |-> Num(3000), trans_thresh |-> tt, polycorrect |-> pcor,
                std_sets |-> FitSets,
                sk82_tab |-> Sk82Unique] @@ StarInfo(None, None, Some(Zero), Some(Zero))

\* Wavelength arrays over a pool of wavelengths given in tenths of an
\* Angstrom.
PoolGrids(pool, len) ==
    {[i \in 1..len |-> Dec(pool[g[i]], -1)] : g \in IncSeqs(1, Len(pool), len)}

MaskBase(w) ==
    [op |-> "get_mask", wave_star |-> w, flux_star |-> Const(Num(10), Len(w)),
     ivar_star |-> Const(Num(1), Len(w)), mask_star |-> TRUE, mask_tell |-> TRUE,
     BALM_MASK_WID |-> Num(10), trans_thresh |-> Dec(9, -1),
     trans_final |-> Const(Num(1), Len(w))]

\* Fluxes and inverse variances around the atmospheric cutoff.
BadPixelCalls ==
    \E len \in Lengths(MaxPix) :
        \E w \in PoolGrids(<<29900, 30000, 30100, 50000, 62800>>, len),
           f \in Arrays({Num(-1), Zero, Num(10)}, len),
           v \in Arrays({Zero, Num(1)}, len) :
            call = [MaskBase(w) EXCEPT !.flux_star = f, !.ivar_star = v]

\* Wavelengths around the recombination lines.
LineCalls ==
    \E len \in Lengths(MaxPix) :
        \E w \in PoolGrids(<<50000, 65546, 65595, 65695, 65696, 65697, 65707,
                             65746, 65747>>, len),
           ms \in BOOLEAN, wid \in {Num(5), Num(10)} :
            call = [MaskBase(w) EXCEPT !.mask_star = ms, !.BALM_MASK_WID = wid]

\* Wavelengths around the telluric bands and in the near infrared.
TellCalls ==
    \E len \in Lengths(MaxPix) :
        \E w \in PoolGrids(<<50000, 62699, 62700, 62900, 62901, 91000, 91001, 93000>>, len),
           t \in Arrays({Dec(5, -1), Dec(9, -1)}, len),
           mt \in BOOLEAN :
            call = [MaskBase(w) EXCEPT !.mask_tell = mt, !.trans_final = t]

\* The pixels of the mask of test_wrong_bits.
BitPix == 3

\* The calls of flagged one run makes.
MaxFlagged == 3

\* The flag arguments given to flagged.
FlagRequests == {<<"JUNK">>, <<"COSMIC", "JUNK">>, <<"COSMIC">>, <<"BPM">>,
                 <<"COSMIC", "SATURATED">>}

BitMaskCalls ==
    \E cosmics_indx \in Arrays(BOOLEAN, BitPix) :
        call = [op |-> "test_wrong_bits", cosmics_indx |-> cosmics_indx]

\* The points given to a rejecting fit.
FitPoints == 3

\* The iteration caps: two small ones, and the 35 of generate_sensfunc.
MaxIters == {1, 2, 35}

RobustFitCalls ==
    \E inmask \in Arrays(BOOLEAN, FitPoints), maxiter \in MaxIters,
       function \in {"polynomial", "bspline"} :
        call = [op |-> "robust_fit", function |-> function, inmask |-> inmask,
                maxiter |-> maxiter, sticky |-> TRUE]

Calls ==
    \/ PlainCalls
    \/ MaskCalls
    \/ TelluricCalls
    \/ ExtinctCalls
    \/ ApplyCalls
    \/ ExtinctionCorrectionCalls
    \/ LoadExtinctionCalls
    \/ FindCalls
    \/ SensfuncCalls
    \/ GenerateCalls
    \/ FitCalls
    \/ TelluricParamsCalls
    \/ GetStandardCalls
    \/ BadPixelCalls
    \/ LineCalls
    \/ TellCalls
    \/ BitMaskCalls
    \/ RobustFitCalls

(***************************************************************************)
(* The state: the call, where it stands, and what it has computed.         *)
(***************************************************************************)
Init == Calls /\ pc = "start" /\ ret = [status |-> "none"]

Call_apply_sensfunc_spec ==
    /\ pc = "start"
    /\ call.op = "apply_sensfunc_spec"
    /\ ret' = apply_sensfunc_spec(call)
    /\ pc' = "done"
    /\ UNCHANGED call

Call_apply_sensfunc ==
    /\ pc = "start"
    /\ call.op = "apply_sensfunc"
    /\ ret' = apply_sensfunc(call)
    /\ pc' = "done"
    /\ UNCHANGED call

Call_extinction_correction ==
    /\ pc = "start"
    /\ call.op = "extinction_correction"
    /\ ret' = extinction_correction(call.wave, call.airmass, call.extinct)
    /\ pc' = "done"
    /\ UNCHANGED call

Call_load_extinction_data ==
    /\ pc = "start"
    /\ call.op = "load_extinction_data"
    /\ ret' = [status |-> "ok",
               extinct |-> load_extinction_data(call.longitude, call.latitude)]
    /\ pc' = "done"
    /\ UNCHANGED call

\* match_coordinates_sky may return any of several equally near rows.
Call_find_standard_file ==
    /\ pc = "start"
    /\ call.op = "find_standard_file"
    /\ ret' \in find_standard_file(call)
    /\ pc' = "done"
    /\ UNCHANGED call

\* standard_sensfunc with telluric=True fits no spline and sets no spacing.
Call_standard_sensfunc ==
    /\ pc = "start"
    /\ call.op = "standard_sensfunc"
    /\ ret' = IF call.telluric THEN [status |-> "ok", warned |-> FALSE]
              ELSE bspline_bkspace(call.wave, call.resolution, call.nresln)
    /\ pc' = "done"
    /\ UNCHANGED call

\* generate_sensfunc and generate_sensfunc_old share their code but for the
\* call of get_mask.
Generators == {"generate_sensfunc", "generate_sensfunc_old"}

Step_generate_sensfunc_units ==
    /\ pc = "start"
    /\ call.op \in Generators
    /\ ret' = generate_sensfunc_units(call)
    /\ pc' = "INIT"
    /\ UNCHANGED call

Step_generate_sensfunc_extinct ==
    /\ pc = "INIT"
    /\ call.op \in Generators
    /\ ret' = generate_sensfunc_extinct(call, ret)
    /\ pc' = IF ret'.status = "ok" THEN "EXTINCTION_APPLIED" ELSE "FAILED"
    /\ UNCHANGED call

Call_telluric_params ==
    /\ pc = "start"
    /\ call.op = "telluric_params"
    /\ ret' = telluric_params(call.sptype, call.sk82_tab)
    /\ pc' = "done"
    /\ UNCHANGED call

\* find_standard_file may return any of several equally near rows.
Call_get_standard_spectrum ==
    /\ pc = "start"
    /\ call.op = "get_standard_spectrum"
    /\ ret' \in get_standard_spectrum(call)
    /\ pc' = "done"
    /\ UNCHANGED call

Step_generate_sensfunc_model ==
    /\ pc = "EXTINCTION_APPLIED"
    /\ call.op \in Generators
    /\ ret' \in generate_sensfunc_model(call, ret)
    /\ pc' = IF ret'.status = "ok" THEN "MODEL_RESOLVED" ELSE "FAILED"
    /\ UNCHANGED call

Step_generate_sensfunc_masks ==
    /\ pc = "MODEL_RESOLVED"
    /\ call.op \in Generators
    /\ ret' = generate_sensfunc_masks(call, ret)
    /\ pc' = IF ret'.status = "ok" THEN "MASKED" ELSE "FAILED"
    /\ UNCHANGED call

\* utils.robust_polyfit_djs and utils.func_val give the polynomial.
Step_generate_sensfunc_poly ==
    /\ pc = "MASKED"
    /\ call.op \in Generators
    /\ \E v \in FitValues :
          ret' = generate_sensfunc_poly(call, ret, [i \in Idx(call.wave) |-> v])
    /\ pc' = "FIT_POLY"
    /\ UNCHANGED call

\* pydl.iterfit gives the spline, when the fit is not a telluric one.
Step_generate_sensfunc_spline ==
    /\ pc = "FIT_POLY"
    /\ call.op \in Generators
    /\ ~ call.telluric
    /\ \E v \in FitValues :
          ret' = generate_sensfunc_spline(call, ret, [i \in Idx(call.wave) |-> v])
    /\ pc' = "FIT_SPLINE"
    /\ UNCHANGED call

Step_generate_sensfunc_patch ==
    /\ call.op \in Generators
    /\ \/ pc = "FIT_SPLINE"
       \/ pc = "FIT_POLY" /\ call.telluric
    /\ ret' = generate_sensfunc_patch(call, ret)
    /\ pc' = "PATCHED"
    /\ UNCHANGED call

Step_generate_sensfunc_package ==
    /\ pc = "PATCHED"
    /\ call.op \in Generators
    /\ ret' = generate_sensfunc_package(call, ret)
    /\ pc' = "PACKAGED"
    /\ UNCHANGED call

Call_get_mask ==
    /\ pc = "start"
    /\ call.op = "get_mask"
    /\ ret' = get_mask(call.wave_star, call.flux_star, call.ivar_star, call.mask_star,
                       call.mask_tell, call.BALM_MASK_WID, call.trans_thresh,
                       call.trans_final)
    /\ pc' = "done"
    /\ UNCHANGED call

\* test_wrong_bits: the mask with the cosmic rays turned on.
Step_test_wrong_bits_turn_on ==
    /\ pc = "start"
    /\ call.op = "test_wrong_bits"
    /\ ret' = [status |-> "ok", mask |-> test_wrong_bits_mask(call.cosmics_indx),
               asked |-> <<>>, out |-> <<>>]
    /\ pc' = "TURNED_ON"
    /\ UNCHANGED call

\* One call of flagged on the mask; out holds what each call gave.
Step_test_wrong_bits_flagged ==
    /\ pc = "TURNED_ON"
    /\ call.op = "test_wrong_bits"
    /\ Len(ret.asked) < MaxFlagged
    /\ \E flag \in FlagRequests :
          ret' = [ret EXCEPT !.asked = Append(@, flag),
                             !.out = Append(@, flagged(ret.mask, flag))]
    /\ UNCHANGED <<call, pc>>

Step_robust_fit_begin ==
    /\ pc = "start"
    /\ call.op = "robust_fit"
    /\ ret' = robust_fit_begin(call)
    /\ pc' = "ITERATING"
    /\ UNCHANGED call

Step_robust_fit_iterate ==
    /\ pc = "ITERATING"
    /\ call.op = "robust_fit"
    /\ loop_continues(ret.qdone, ret.iIter, call.maxiter)
    /\ \E outliers \in SUBSET Idx(call.inmask) :
          ret' = robust_fit_iterate(call, ret, outliers)
    /\ UNCHANGED <<call, pc>>

Step_robust_fit_return ==
    /\ pc = "ITERATING"
    /\ call.op = "robust_fit"
    /\ ~ loop_continues(ret.qdone, ret.iIter, call.maxiter)
    /\ ret' = robust_fit_return(call, ret)
    /\ pc' = "done"
    /\ UNCHANGED call

Next ==
    \/ Call_apply_sensfunc_spec
    \/ Call_apply_sensfunc
    \/ Call_extinction_correction
    \/ Call_load_extinction_data
    \/ Call_find_standard_file
    \/ Call_standard_sensfunc
    \/ Step_generate_sensfunc_units
    \/ Step_generate_sensfunc_extinct
    \/ Step_generate_sensfunc_model
    \/ Step_generate_sensfunc_masks
    \/ Step_generate_sensfunc_poly
    \/ Step_generate_sensfunc_spline
    \/ Step_generate_sensfunc_patch
    \/ Step_generate_sensfunc_package
    \/ Call_telluric_params
    \/ Call_get_standard_spectrum
    \/ Call_get_mask
    \/ Step_test_wrong_bits_turn_on
    \/ Step_test_wrong_bits_flagged
    \/ Step_robust_fit_begin
    \/ Step_robust_fit_iterate
    \/ Step_robust_fit_return

Spec == Init /\ [][Next]_vars

\* The sensitivity-function computations alone, each step of which is taken
\* once it can be: the code is one thread that runs to its end.
LiveInit == (FitCalls \/ RobustFitCalls) /\ pc = "start" /\ ret = [status |-> "none"]

LiveNext ==
    \/ Step_generate_sensfunc_units
    \/ Step_generate_sensfunc_extinct
    \/ Step_generate_sensfunc_model
    \/ Step_generate_sensfunc_masks
    \/ Step_generate_sensfunc_poly
    \/ Step_generate_sensfunc_spline
    \/ Step_generate_sensfunc_patch
    \/ Step_generate_sensfunc_package
    \/ Step_robust_fit_begin
    \/ Step_robust_fit_iterate
    \/ Step_robust_fit_return

\* The positions at which a call has returned or raised.
Terminal == {"done", "PACKAGED", "FAILED"}

\* A step of a call that has not ended, whatever position and result it
\* leads to: the interpreter keeps executing a function until it returns or
\* raises, so such a step is taken whenever the call has not ended.
Running ==
    /\ pc \notin Terminal
    /\ call' = call
    /\ (pc' \in Terminal \/ pc' \notin Terminal)
    /\ (ret' = [status |-> "none"] \/ ret'.status # "none")

LiveSpec == LiveInit /\ [][LiveNext]_vars /\ WF_vars(Running)

(***************************************************************************)
(* Properties of the flux-calibration code.                                *)
(***************************************************************************)
Done(op) == call.op = op /\ pc = "done"

\* C1: whenever nresln * std_res < std_pix, the bkspace standard_sensfunc
\* hands to the spline fit is at least std_pix.  The code divides the
\* wrong way round (nresln = std_res / std_pix), so this fails.
C1_BkspaceAtLeastPixel ==
    (Done("standard_sensfunc") /\ ~ call.telluric
        /\ Lt(Mul(call.nresln, ret.std_res), ret.std_pix))
    => Ge(ret.bkspace, ret.std_pix)

\* C2: apply_sensfunc and apply_sensfunc_spec both return flux 0 and inverse
\* variance 0 at every pixel where senstot <= 0 or the input inverse
\* variance <= 0.  apply_sensfunc_spec zeroes nothing, so this fails.
C2_ZeroedPixel(senstot, ivar, flam, flam_ivar) ==
    (Le(senstot, Zero) \/ Le(ivar, Zero)) => (flam = Zero /\ flam_ivar = Zero)

C2_ZeroedExtract(x, r) ==
    r.status = "ok" =>
        \A i \in Idx(r.FLAM) :
            C2_ZeroedPixel(r.senstot[i], Val(x).COUNTS_IVAR[i], r.FLAM[i], r.FLAM_IVAR[i])

C2_MaskedPixelsZeroed ==
    /\ (Done("apply_sensfunc_spec") /\ ret.status = "ok")
        => \A i \in Idx(call.counts) :
              C2_ZeroedPixel(ret.senstot[i], call.ivar[i], ret.flam[i], ret.flam_ivar[i])
    /\ Done("apply_sensfunc")
        => /\ C2_ZeroedExtract(call.spec_obj.boxcar, ret.boxcar)
           /\ C2_ZeroedExtract(call.spec_obj.optimal, ret.optimal)

\* The scenario of C3: counts [10, -5, 20], ivar [1, 1, 0], sensfunc 2,
\* exptime 1, no mask, no telluric, no extinction correction.
C3_Scenario ==
    /\ Done("apply_sensfunc_spec")
    /\ call = [ApplierBase(3) EXCEPT !.counts = NumSeq(<<10, -5, 20>>),
                                     !.ivar = NumSeq(<<1, 1, 0>>)]

C4_InMask(i) ==
    IF call.mask = None THEN Gt(call.ivar[i], Zero) ELSE Val(call.mask)[i]

C4_OutmaskIsMaskAndPositive ==
    (Done("apply_sensfunc_spec") /\ ret.status = "ok")
    => /\ \A i \in Idx(call.counts) :
            /\ ret.outmask[i] = (C4_InMask(i) /\ Gt(ret.senstot[i], Zero))
            /\ ret.outmask[i] => C4_InMask(i)
       /\ (call.telluric = None /\ ~ call.extinct_correct)
            => ret.senstot = call.sensfunc

C4_Witness ==
    /\ Done("apply_sensfunc_spec") /\ ret.status = "ok"
    /\ call.mask # None
    /\ \E i, j \in Idx(call.counts) :
          /\ ~ Val(call.mask)[i] /\ Gt(call.ivar[i], Zero)
          /\ Gt(ret.senstot[i], Zero) /\ ~ ret.outmask[i]
          /\ ret.outmask[j]

\* A call of apply_sensfunc_spec with a telluric transmission and no
\* extinction correction, so that senstot is the telluric-divided sensfunc.
C5_Case ==
    /\ Done("apply_sensfunc_spec") /\ ret.status = "ok"
    /\ call.telluric # None /\ ~ call.extinct_correct

\* C5 as stated: the transmission is floored at 1e-10 before the division.
C5_AsStated ==
    C5_Case =>
        \A i \in Idx(call.sensfunc) :
            ret.senstot[i] =
                Div(call.sensfunc[i],
                    IF Lt(Val(call.telluric)[i], TELL_FLOOR) THEN TELL_FLOOR
                    ELSE Val(call.telluric)[i])

\* C5: the sensitivity is sensfunc / telluric where telluric > 1e-10 and 0
\* where telluric <= 1e-10 (the transmission is not floored: the pixel is
\* zeroed), except at telluric = -1, where the denominator telluric + 1 is
\* 0 and the result is NaN.
C5_TelluricZeroedBelowThreshold ==
    C5_Case =>
        \A i \in Idx(call.sensfunc) :
            LET t == Val(call.telluric)[i]
            IN /\ Gt(t, TELL_FLOOR) => ret.senstot[i] = Div(call.sensfunc[i], t)
               /\ (Le(t, TELL_FLOOR) /\ t # Num(-1)) => ret.senstot[i] = Zero
               /\ t = Num(-1) => IsNaN(ret.senstot[i])

C5_Witness ==
    /\ C5_Case
    /\ \E i, j, k \in Idx(call.sensfunc) :
          /\ Val(call.telluric)[i] = Zero /\ call.sensfunc[i] = Num(2)
          /\ ret.senstot[i] = Zero
          /\ Val(call.telluric)[j] = Dec(5, -1) /\ ret.senstot[j] = Num(4)
          /\ Val(call.telluric)[k] = Num(-1) /\ IsNaN(ret.senstot[k])

\* C6: outside the wavelength span of the extinction curve the magnitude is
\* held at the nearest in-range value, on both sides of the span.  The code
\* fills one side only (if/elif), so this fails when both sides stick out.
C6_InSpan(w) ==
    LET tbl == Val(call.extinct)
    IN Le(tbl.wave[1], w) /\ Le(w, tbl.wave[Len(tbl.wave)])

C6_EdgeHeldOnBothSides ==
    (Done("extinction_correction") /\ ret.status = "ok")
    => LET inside == {j \in Idx(call.wave) : C6_InSpan(call.wave[j])}
       IN inside # {} =>
            \A i \in Idx(call.wave) :
                /\ i < SetMin(inside) => ret.mag_ext[i] = ret.mag_ext[SetMin(inside)]
                /\ i > SetMax(inside) => ret.mag_ext[i] = ret.mag_ext[SetMax(inside)]

\* C7: extinction_correction raises a PypeItError for airmass < 1 and
\* accepts airmass = 1; generate_sensfunc and the appliers with the
\* extinction correction on end with that error and store no output.
C7_BadAirmass == Lt(call.airmass, Num(1))

C7_Fatal == ret.status = "raised" /\ ret.error = "PypeItError"

C7_AirmassBelowOneIsFatal ==
    /\ Done("extinction_correction")
        => /\ C7_BadAirmass => C7_Fatal
           /\ (call.airmass = Num(1) /\ call.extinct # None) => ret.status = "ok"
    /\ (call.op = "generate_sensfunc" /\ pc \notin {"start", "INIT"} /\ C7_BadAirmass)
        => (pc = "FAILED" /\ C7_Fatal)
    /\ (Done("apply_sensfunc_spec") /\ call.extinct_correct /\ C7_BadAirmass)
        => C7_Fatal
    /\ (Done("apply_sensfunc") /\ call.extinct_correct /\ C7_BadAirmass)
        => /\ ret.boxcar.status # "ok" /\ ret.optimal.status # "ok"
           /\ (call.spec_obj.boxcar # None \/ call.spec_obj.optimal # None) => C7_Fatal

C7_Witness ==
    /\ call.op = "generate_sensfunc" /\ pc = "FAILED"
    /\ call.airmass = Dec(5, -1)
    /\ C7_Fatal

\* C8: when no site lies within the tolerance, the callers of
\* load_extinction_data proceed without the extinction correction.  The code
\* hands the None on to extinction_correction, which subscripts it, so this
\* fails.
C8_NoSite(longitude) ==
    \A i \in Idx(extinct_files) :
        ~ Lt(separation(longitude, extinct_files[i].Lon), Num(EXTINCT_TOLER))

C8_CallersProceedWithoutSite ==
    /\ (Done("load_extinction_data") /\ C8_NoSite(call.longitude))
        => ret.extinct = None
    /\ (call.op = "generate_sensfunc" /\ pc \notin {"start", "INIT"}
            /\ C8_NoSite(call.longitude) /\ ~ Lt(call.airmass, Num(1)))
        => ret.status = "ok"
    /\ (Done("apply_sensfunc_spec") /\ call.extinct_correct /\ call.longitude # None
            /\ ~ Lt(call.airmass, Num(1)))
        => (C8_NoSite(Val(call.longitude)) => ret.status = "ok")

\* The separation of the object from row idx of catalog qq, and whether
\* catalog qq has a row within the tolerance.
C9_Sep(qq, idx) ==
    separation(obj_coord(call.ra, call.ra_is_float),
               SkyCoord(call.std_sets[qq].star_tbl[idx].RA_2000, "hourangle"))

C9_Matches(qq) ==
    \E idx \in Idx(call.std_sets[qq].star_tbl) : Lt(C9_Sep(qq, idx), call.toler)

C9_Nearest(qq, idx) ==
    \A j \in Idx(call.std_sets[qq].star_tbl) : Le(C9_Sep(qq, idx), C9_Sep(qq, j))

C9_ReturnedFrom(qq) ==
    /\ ret.kind = "dict"
    /\ ret.std_dict.std_source = std_file_source[qq]
    /\ \E idx \in Idx(call.std_sets[qq].star_tbl) :
          /\ C9_Nearest(qq, idx)
          /\ ret.sep = C9_Sep(qq, idx)
          /\ ret.std_dict.name = call.std_sets[qq].star_tbl[idx].Name
          /\ ret.std_dict.std_ra = call.std_sets[qq].star_tbl[idx].RA_2000
          /\ ret.std_dict.cal_file =
                <<call.std_sets[qq].path, call.std_sets[qq].star_tbl[idx].File>>

\* C9: find_standard_file consults the catalogs in the order xshooter,
\* calspec, eso and returns the nearest entry of the first catalog that has
\* one within the tolerance (strictly), whatever closer entries later
\* catalogs hold; it returns None when no catalog has one.
C9_FirstCatalogWithinToleranceWins ==
    (Done("find_standard_file") /\ ~ call.check)
    => /\ \A qq \in Idx(call.std_sets) :
            (C9_Matches(qq) /\ \A p \in 1..(qq - 1) : ~ C9_Matches(p))
                => C9_ReturnedFrom(qq)
       /\ (\A qq \in Idx(call.std_sets) : ~ C9_Matches(qq)) => ret.kind = "None"
       /\ std_file_source = <<"xshooter", "calspec", "eso">>

C9_Witness ==
    /\ Done("find_standard_file") /\ ~ call.check
    /\ ret.kind = "dict"
    /\ ret.std_dict.std_source = "calspec"
    /\ \E idx \in Idx(call.std_sets[3].star_tbl) : Lt(C9_Sep(3, idx), ret.sep)

\* Catalog qq has an entry exactly at the coordinates of the object.
C10_Exact(qq) ==
    \E idx \in Idx(call.std_sets[qq].star_tbl) : C9_Sep(qq, idx) = Zero

\* C10 as stated: a query exactly at the coordinates of a catalog entry
\* returns an entry at separation 0, whatever the catalog.
C10_AsStated ==
    (Done("find_standard_file") /\ ~ call.check
        /\ \E qq \in Idx(call.std_sets) : C10_Exact(qq))
    => (ret.kind = "dict" /\ ret.sep = Zero)

\* C10: a query exactly at the coordinates of an entry of a catalog returns
\* an entry at separation 0 of that catalog if no catalog before it in the
\* order has an entry within the tolerance; otherwise it returns the nearest
\* entry of the first catalog before it that has one, whose separation may
\* be larger than 0.
C10_ExactMatchUnlessEarlierCatalogMatches ==
    (Done("find_standard_file") /\ ~ call.check)
    => \A qq \in Idx(call.std_sets) :
          C10_Exact(qq) =>
              IF \A p \in 1..(qq - 1) : ~ C9_Matches(p)
              THEN /\ ret.kind = "dict"
                   /\ ret.sep = Zero
                   /\ ret.std_dict.std_source = std_file_source[qq]
              ELSE /\ ret.kind = "dict"
                   /\ Lt(ret.sep, call.toler)
                   /\ \E p \in 1..(qq - 1) :
                         /\ C9_Matches(p)
                         /\ ret.std_dict.std_source = std_file_source[p]

C10_Witness ==
    /\ Done("find_standard_file") /\ ~ call.check
    /\ C10_Exact(3) /\ ~ C9_Matches(1) /\ ~ C9_Matches(2)
    /\ ret.kind = "dict" /\ ret.sep = Zero
    /\ ret.std_dict.std_source = "eso"

\* No catalog has an entry within the tolerance.
C11_NoMatch == \A qq \in Idx(call.std_sets) : ~ C9_Matches(qq)

\* C11: when no catalog has an entry within the tolerance,
\* find_standard_file (check=False) returns None without raising, and the
\* closest candidate it reports is an entry whose separation is the
\* smallest over all entries of the three catalogs.
C11_ClosestIsGlobalNearest ==
    (Done("find_standard_file") /\ ~ call.check /\ C11_NoMatch)
    => /\ ret.status = "ok"
       /\ ret.kind = "None"
       /\ \A qq \in Idx(call.std_sets) :
             \A idx \in Idx(call.std_sets[qq].star_tbl) :
                Le(ret.closest.sep, C9_Sep(qq, idx))
       /\ \E qq \in Idx(call.std_sets) :
             \E idx \in Idx(call.std_sets[qq].star_tbl) :
                /\ ret.closest.sep = C9_Sep(qq, idx)
                /\ ret.closest.name = Some(call.std_sets[qq].star_tbl[idx].Name)
                /\ ret.closest.ra = Some(call.std_sets[qq].star_tbl[idx].RA_2000)

C11_Witness ==
    /\ Done("find_standard_file") /\ ~ call.check /\ C11_NoMatch
    /\ ret.kind = "None"
    /\ \E idx \in Idx(call.std_sets[2].star_tbl) :
          ret.closest.name = Some(call.std_sets[2].star_tbl[idx].Name)
    /\ \E idx \in Idx(call.std_sets[3].star_tbl) :
          Lt(ret.closest.sep, C9_Sep(3, idx))
    /\ \A idx \in Idx(call.std_sets[1].star_tbl) :
          Lt(ret.closest.sep, C9_Sep(1, idx))

\* C12: find_standard_file with check=True returns a boolean, never a
\* record: True exactly when some catalog has an entry within the tolerance,
\* which is exactly when the same call with check=False returns a record
\* rather than None.
C12_CheckModeAgreesWithResolve ==
    (Done("find_standard_file") /\ call.check)
    => /\ ret.status = "ok"
       /\ ret.kind = "bool"
       /\ ret.found = (\E qq \in Idx(call.std_sets) : C9_Matches(qq))
       /\ \A r \in find_standard_file([call EXCEPT !.check = FALSE]) :
             /\ r.kind \in {"dict", "None"}
             /\ ret.found = (r.kind = "dict")

C12_Witness ==
    /\ Done("find_standard_file") /\ call.check
    /\ ret.kind = "bool" /\ ret.found
    /\ ~ C9_Matches(1) /\ ~ C9_Matches(2) /\ C9_Matches(3)

\* The insufficient-information error of get_standard_spectrum.
C13_Insufficient ==
    /\ ret.status = "raised"
    /\ ret.msg = "Insufficient information provided for fluxing."

\* C13: get_standard_spectrum fails with the insufficient-information error
\* exactly when neither both coordinates nor both star_type and star_mag
\* are supplied; with ra and dec supplied it never raises that error.  The
\* code takes the coordinates only when star_type and star_mag are both
\* None, so this fails when one of the two is given with the coordinates.
C13_CoordinatesSuffice ==
    Done("get_standard_spectrum")
    => (C13_Insufficient <=>
            /\ ~ (call.ra # None /\ call.dec # None)
            /\ ~ (call.star_type # None /\ call.star_mag # None))

\* generate_sensfunc is given coordinates alone, and no catalog has an entry
\* within the default tolerance of them.
C14_NoStandard ==
    /\ call.op = "generate_sensfunc"
    /\ call.ra # None /\ call.dec # None
    /\ call.star_type = None /\ call.star_mag = None
    /\ \A qq \in Idx(call.std_sets) :
          \A idx \in Idx(call.std_sets[qq].star_tbl) :
             ~ Lt(separation(obj_coord(Val(call.ra), call.ra_is_float),
                             SkyCoord(call.std_sets[qq].star_tbl[idx].RA_2000, "hourangle")),
                  Num(STD_TOLER))

C15_Rows == {i \in Idx(call.sk82_tab) : call.sk82_tab[i].Sp = call.sptype}

\* C15: telluric_params raises an error whenever the spectral type matches
\* no row or more than one row of the table, and returns the parameters of
\* the row only when exactly one row matches.
C15_UniqueTypeOrError ==
    Done("telluric_params")
    => /\ Cardinality(C15_Rows) # 1
            => (ret.status = "raised" /\ ret.error = "ValueError")
       /\ Cardinality(C15_Rows) = 1
            => /\ ret.status = "ok"
               /\ \A i \in C15_Rows : /\ ret.T = call.sk82_tab[i].Teff
                                      /\ ret.M_V = call.sk82_tab[i].M_V

C15_Witness ==
    /\ Done("telluric_params")
    /\ Cardinality(C15_Rows) = 2
    /\ ret.status = "raised"

\* C16: the bad-pixel mask of get_mask is False at a pixel exactly when
\* ivar <= 0, or flux <= 0, or the pixel is the first or the last, or its
\* wavelength is below 3000; a good interior pixel at exactly 3000 is True.
\* The code cuts at wave_star <= 3000.0, so this fails at exactly 3000.
C16_BadMaskBelowCutoffOnly ==
    Done("get_mask")
    => \A i \in Idx(call.wave_star) :
          ret.msk_bad[i] =
              ~ (\/ Le(call.ivar_star[i], Zero)
                 \/ Le(call.flux_star[i], Zero)
                 \/ i = 1
                 \/ i = Len(call.wave_star)
                 \/ Lt(call.wave_star[i], Num(3000)))

\* Some line of the list lies within wid of the wavelength w, inclusively.
C17_NearLine(w, wid) ==
    \E k \in Idx(lines_recomb) :
        /\ Le(Sub(w, Dec(lines_recomb[k], -1)), wid)
        /\ Le(Sub(Dec(lines_recomb[k], -1), w), wid)

C18_InBand(w) ==
    \/ Ge(w, Num(6270)) /\ Le(w, Num(6290))
    \/ Ge(w, Num(6850)) /\ Le(w, Num(6960))
    \/ Ge(w, Num(7160)) /\ Le(w, Num(7340))
    \/ Ge(w, Num(7580)) /\ Le(w, Num(7750))
    \/ Ge(w, Num(8150)) /\ Le(w, Num(8250))

\* C18: with telluric masking on, tell is False at a pixel exactly when its
\* wavelength is in one of the five bands or, if the spectrum reaches beyond
\* 9100, its wavelength exceeds 9100 and the transmission there is below
\* the threshold; no pixel at or below 9100 outside the bands is masked.
\* With telluric masking off tell is True at every pixel.
C18_TelluricMaskBandsAndNir ==
    Done("get_mask")
    => \A i \in Idx(call.wave_star) :
          /\ call.mask_tell
                => ret.msk_tell[i] =
                      ~ (\/ C18_InBand(call.wave_star[i])
                         \/ /\ \E j \in Idx(call.wave_star) :
                                  Gt(call.wave_star[j], Num(9100))
                            /\ Gt(call.wave_star[i], Num(9100))
                            /\ Lt(call.trans_final[i], call.trans_thresh))
          /\ (Le(call.wave_star[i], Num(9100)) /\ ~ C18_InBand(call.wave_star[i]))
                => ret.msk_tell[i]
          /\ ~ call.mask_tell => ret.msk_tell[i]

C18_Witness ==
    /\ Done("get_mask") /\ call.mask_tell
    /\ \E i, j \in Idx(call.wave_star) :
          /\ Gt(call.wave_star[i], Num(9100))
          /\ Lt(call.trans_final[i], call.trans_thresh)
          /\ ~ ret.msk_tell[i]
          /\ Le(call.wave_star[j], Num(9100)) /\ ~ C18_InBand(call.wave_star[j])
          /\ Lt(call.trans_final[j], call.trans_thresh)
          /\ ret.msk_tell[j]

\* C19: every record generate_sensfunc returns has wave, sensfunc and
\* mask_sens of the length of the input wavelength array, wave_min and
\* wave_max the least and the greatest input wavelength, and the airmass and
\* the exposure time it was called with.
C19_RecordMatchesInputs ==
    (call.op = "generate_sensfunc" /\ pc = "PACKAGED")
    => /\ Len(ret.wave) = Len(call.wave)
       /\ Len(ret.sensfunc) = Len(call.wave)
       /\ Len(ret.mask_sens) = Len(call.wave)
       /\ \E i \in Idx(call.wave) : ret.wave_min = call.wave[i]
       /\ \A i \in Idx(call.wave) : Le(ret.wave_min, call.wave[i])
       /\ \E i \in Idx(call.wave) : ret.wave_max = call.wave[i]
       /\ \A i \in Idx(call.wave) : Ge(ret.wave_max, call.wave[i])
       /\ ret.airmass = call.airmass
       /\ ret.exptime = call.exptime

C19_Witness ==
    /\ call.op = "generate_sensfunc"
    /\ pc = "PACKAGED"
    /\ ~ call.telluric
    /\ call.airmass # call.exptime
    /\ \E i \in Idx(ret.mask_sens) : ret.mask_sens[i]
    /\ \E i \in Idx(ret.mask_sens) : ~ ret.mask_sens[i]

\* C20: BitMask.flagged raises ValueError whenever some requested flag is
\* not a bit of the mask, whether every name is unknown or known and
\* unknown names are mixed; the mask stays as turn_on left it, and a call
\* of flagged(mask, 'COSMIC') after a failed one reports exactly the pixels
\* that were turned on.
C20_Unknown(flag) == \E k \in Idx(flag) : flag[k] \notin {"BPM", "COSMIC", "SATURATED"}

C20_WrongBitsRaiseAndLeaveMask ==
    (call.op = "test_wrong_bits" /\ pc = "TURNED_ON")
    => /\ \A n \in Idx(ret.asked) :
            C20_Unknown(ret.asked[n])
            => (ret.out[n].status = "raised" /\ ret.out[n].error = "ValueError")
       /\ \A i \in Idx(call.cosmics_indx) :
            ret.mask[i] = IF call.cosmics_indx[i] THEN 2 ELSE 0
       /\ \A n \in Idx(ret.asked) :
            (ret.asked[n] = <<"COSMIC">> /\ \E m \in 1..(n - 1) : C20_Unknown(ret.asked[m]))
            => (ret.out[n].status = "ok" /\ ret.out[n].value = call.cosmics_indx)

C20_Witness ==
    /\ call.op = "test_wrong_bits"
    /\ pc = "TURNED_ON"
    /\ ret.asked = <<<<"JUNK">>, <<"COSMIC", "JUNK">>, <<"COSMIC">>>>
    /\ ret.out[1].status = "raised"
    /\ ret.out[2].status = "raised"
    /\ ret.out[3].status = "ok"
    /\ \E i \in Idx(call.cosmics_indx) : call.cosmics_indx[i]
    /\ \E i \in Idx(call.cosmics_indx) : ~ call.cosmics_indx[i]

\* C21: in one run of generate_sensfunc the steps come in the order
\* extinction, model, masks, polynomial fit, spline fit (exactly when
\* telluric is off), patch, packaging, and the log-ratio given to the last
\* fit has not been patched with polynomial values.  The order holds
\* (C21_StepOrder); the spline is fitted to magfunc after the first patch,
\* so the whole fails.
C21_Has(field) == field \in DOMAIN ret

C21_StepOrder ==
    (call.op \in Generators)
    => /\ pc = "EXTINCTION_APPLIED" => (C21_Has("ext_corr") /\ ~ C21_Has("flux_true"))
       /\ pc = "MODEL_RESOLVED" => (C21_Has("flux_true") /\ ~ C21_Has("msk_bad"))
       /\ pc = "MASKED" => (C21_Has("flux_true") /\ C21_Has("msk_bad")
                                /\ ~ C21_Has("magfunc_poly"))
       /\ pc = "FIT_POLY" => (C21_Has("msk_bad") /\ C21_Has("magfunc_poly")
                                /\ ~ C21_Has("logfit1") /\ ~ C21_Has("sensfunc"))
       /\ pc = "FIT_SPLINE" => (~ call.telluric /\ C21_Has("magfunc_poly")
                                /\ C21_Has("logfit1") /\ ~ C21_Has("sensfunc"))
       /\ pc = "PATCHED" => (C21_Has("magfunc_poly") /\ C21_Has("sensfunc")
                                /\ (C21_Has("logfit1") <=> ~ call.telluric))
       /\ pc = "PACKAGED" => (C21_Has("sensfunc") /\ C21_Has("wave_min"))

C21_StepsInOrderLastFitUnpatched ==
    /\ C21_StepOrder
    /\ (call.op \in Generators /\ pc = "FIT_SPLINE") => ret.fit_input = ret.magfunc_raw

\* C22: a pixel's log-ratio is replaced by the polynomial only if more than
\* half of the pixels pass the fit mask and the polynomial is strictly
\* inside (MAGFUNC_MIN, MAGFUNC_MAX) there; otherwise nothing is replaced
\* and a warning is issued.  A pixel without variance takes the polynomial
\* whatever its value, so this fails.
C22_Allowed(i) ==
    /\ polycorrect_on(ret.msk_fit_sens, call.polycorrect)
    /\ Gt(ret.magfunc_poly[i], Num(MAGFUNC_MIN))
    /\ Lt(ret.magfunc_poly[i], Num(MAGFUNC_MAX))

C22_PatchOnlyWithinBounds ==
    /\ (call.op \in Generators /\ pc = "FIT_POLY")
       => /\ \A i \in Idx(ret.magfunc) :
                ret.magfunc[i] # ret.magfunc_raw[i] => C22_Allowed(i)
          /\ ret.warned <=> ~ polycorrect_on(ret.msk_fit_sens, call.polycorrect)
          /\ ret.warned => ret.magfunc = ret.magfunc_raw
    /\ (call.op \in Generators /\ pc = "PATCHED")
       => \A i \in Idx(ret.magfunc) :
                ret.magfunc[i] # ret.before_patch[i] => C22_Allowed(i)

\* C23: the raw log-ratio is clamped into [-25, 25], both logarithms are
\* taken of numbers floored at TINY, every pixel whose clamped log-ratio is
\* at a clamp bound is False in masktot, and so is every pixel that is False
\* in the bad-pixel mask.
C23_ClampFloorAndMask ==
    (call.op \in Generators /\ pc = "FIT_POLY")
    => \A i \in Idx(ret.magfunc_raw) :
        /\ Ge(ret.magfunc_raw[i], Num(-25))
        /\ Le(ret.magfunc_raw[i], Num(25))
        /\ Ge(ret.logflux_obs[i], Dec(-375, -1))
        /\ Ge(ret.logflux_std[i], Dec(-375, -1))
        /\ (ret.magfunc_raw[i] = Num(25) \/ ret.magfunc_raw[i] = Num(-25))
            => ~ ret.masktot[i]
        /\ ~ ret.msk_bad[i] => ~ ret.masktot[i]

C23_Witness ==
    /\ call.op = "generate_sensfunc"
    /\ pc = "FIT_POLY"
    /\ \E i \in Idx(ret.magfunc_raw) :
        /\ Le(ret.flux_star[i], Zero)
        /\ ret.magfunc_raw[i] = Num(25)
        /\ ~ ret.masktot[i]
    /\ \E i \in Idx(ret.magfunc_raw) : ret.masktot[i]
    /\ \E i \in Idx(ret.magfunc_raw) : ~ ret.msk_bad[i] /\ Lt(ret.magfunc_raw[i], Num(25))

\* C26: at every pixel and in both modes the log-ratio sensfunc is computed
\* from lies in [MAGFUNC_MIN, MAGFUNC_MAX], the pixels without variance that
\* took the polynomial included, so that sensfunc is positive and within
\* 10^-10 .. 10^10.  The polynomial is not clamped, so this fails.
C26_FinalLogRatioBounded ==
    (call.op \in Generators /\ pc = "PATCHED")
    => \A i \in Idx(ret.magfunc) :
        /\ Ge(ret.magfunc[i], Num(MAGFUNC_MIN))
        /\ Le(ret.magfunc[i], Num(MAGFUNC_MAX))
        /\ Gt(ret.sensfunc[i], Zero)
        /\ Ge(ret.sensfunc[i], Dec(1, -10))
        /\ Le(ret.sensfunc[i], Dec(1, 10))

\* C27: the telluric division of the appliers never divides by zero,
\* whatever the transmission (zero, exactly 1e-10 and negative values
\* included), and gives sensitivity 0 wherever the transmission is <= 1e-10.
\* At transmission -1 the denominator is -1 + 1 = 0, so this fails.
C27_DivisionNeverByZero ==
    (Done("apply_sensfunc_spec") /\ ret.status = "ok"
        /\ call.telluric # None /\ ~ call.extinct_correct)
    => \A i \in Idx(call.sensfunc) :
        /\ telluric_denominator(Val(call.telluric)[i]) # Zero
        /\ Le(Val(call.telluric)[i], TELL_FLOOR) => ret.senstot[i] = Zero

\* C28: when the true flux interpolated onto the observed grid is <= 0 at
\* some pixel, the true flux of every pixel is the polynomial refitted to
\* the model, the positive pixels included; when it is positive everywhere
\* the interpolated values stand; and the record stores that final array.
C28_Stage == call.op \in Generators
              /\ pc \in {"MODEL_RESOLVED", "MASKED", "FIT_POLY", "FIT_SPLINE", "PATCHED"}

C28_FinalFluxTrue ==
    C28_Stage
    => IF \E i \in Idx(ret.flux_interp) : Le(ret.flux_interp[i], Zero)
       THEN ret.star_poly # None /\ ret.flux_true = Val(ret.star_poly)
       ELSE ret.star_poly = None /\ ret.flux_true = ret.flux_interp

C28_Stored == (pc = "PATCHED" /\ pc' = "PACKAGED") => ret'.flux_true = ret.flux_true

C28_RefitReplacesEveryPixel == [](C28_FinalFluxTrue) /\ [][C28_Stored]_vars

C28_Witness ==
    /\ call.op = "generate_sensfunc"
    /\ pc = "PATCHED"
    /\ \E i \in Idx(ret.flux_interp) : Le(ret.flux_interp[i], Zero)
    /\ \E j \in Idx(ret.flux_interp) :
        /\ Gt(ret.flux_interp[j], Zero)
        /\ ret.flux_true[j] # ret.flux_interp[j]

\* C29: generate_sensfunc_old never gets past the masks: whenever extinction
\* and the standard are resolved, its call of get_mask with the keyword
\* mask_balmer fails, so it returns no record, where generate_sensfunc on
\* the same arguments returns one.
C29_MaskError == "get_mask() got an unexpected keyword argument"

C29_OldFailsAtMasks ==
    (call.op = "generate_sensfunc_old")
    => /\ pc \in {"start", "INIT", "EXTINCTION_APPLIED", "MODEL_RESOLVED", "FAILED"}
       /\ generate_sensfunc(call) = {}
       /\ (pc = "FAILED" /\ ret.msg = C29_MaskError)
            => /\ ret.error = "TypeError"
               /\ generate_sensfunc([call EXCEPT !.op = "generate_sensfunc"]) # {}
       /\ (pc = "FAILED" /\ ret.msg # C29_MaskError)
            => generate_sensfunc([call EXCEPT !.op = "generate_sensfunc"]) = {}

C29_Witness ==
    /\ call.op = "generate_sensfunc_old"
    /\ pc = "FAILED"
    /\ ret.msg = C29_MaskError
    /\ generate_sensfunc([call EXCEPT !.op = "generate_sensfunc"]) # {}

\* C30: the record generate_sensfunc returns does not depend on trans_thresh:
\* the call that differs in trans_thresh alone may return the same record,
\* the masks being made with the threshold 0.9 and with the line and the
\* telluric masks on, whatever telluric is.
C30_Twin ==
    [call EXCEPT !.trans_thresh = IF @ = Dec(9, -1) THEN Dec(5, -1) ELSE Dec(9, -1)]

C30_RecordIgnoresTransThresh ==
    /\ (call.op = "generate_sensfunc" /\ pc = "PACKAGED")
        => ret \in generate_sensfunc(C30_Twin)
    /\ (call.op = "generate_sensfunc" /\ pc = "MASKED")
        => \A i \in Idx(call.wave) :
            /\ Gt(call.wave[i], Num(9100)) => ~ ret.msk_tell[i]
            /\ ret.msk_star[i] = msk_star_at(call.wave[i], TRUE, call.BALM_MASK_WID)

C30_Witness ==
    /\ call.op = "generate_sensfunc"
    /\ pc = "PACKAGED"
    /\ call.trans_thresh = Dec(5, -1)
    /\ call.polycorrect
    /\ call.counts_ivar[1] = Zero
    /\ \E i \in Idx(call.wave) : i \notin {1, Len(call.wave)} /\ Gt(call.wave[i], Num(9100))
    /\ ret \in generate_sensfunc(C30_Twin)

\* C24: in the rejecting fit, called with sticky=True, the rejected points
\* only grow: a point rejected in one iteration is rejected in every later
\* one and in the mask returned, and the loop ends with the first iteration
\* that rejects nothing new.
C24_Grows ==
    (call.op = "robust_fit" /\ pc = "ITERATING")
    => /\ \A i \in Idx(ret.thismask) : ~ ret.thismask[i] => ~ ret'.thismask[i]
       /\ ret.rejected \subseteq ret'.rejected
       /\ ret.qdone => pc' = "done"
       /\ (pc' = "ITERATING" /\ ret'.rejected = ret.rejected) => ret'.qdone

C24_Kept ==
    (call.op = "robust_fit" /\ pc \in {"ITERATING", "done"})
    => /\ \A i \in ret.rejected : ~ ret.thismask[i]
       /\ pc = "done" => \A i \in ret.rejected : ~ ret.outmask[i]

C24_StickyRejectionOnlyGrows == [][C24_Grows]_vars /\ [](C24_Kept)

C24_Witness ==
    /\ call.op = "robust_fit"
    /\ pc = "done"
    /\ ret.iIter = 3
    /\ ret.qdone
    /\ Cardinality(ret.rejected) = 2
    /\ \E i \in Idx(ret.outmask) : ret.outmask[i]

\* C25: every computation of a sensitivity function ends: a rejecting fit
\* makes maxiter iterations at most (35 from generate_sensfunc) and returns
\* its fit and its mask without raising, all points rejected or not, and
\* every run of the generator reaches its record or its failure.
C25_Ended == pc \in Terminal

C25_Bounded ==
    (call.op = "robust_fit" /\ pc \in {"ITERATING", "done"})
    => /\ ret.iIter <= call.maxiter
       /\ ret.status = "ok"
       /\ pc = "done" => Len(ret.outmask) = Len(call.inmask)

C25_Terminates == <>(C25_Ended) /\ [](C25_Bounded)

C25_Witness ==
    /\ call.op = "robust_fit"
    /\ pc = "done"
    /\ ret.iIter = call.maxiter
    /\ ~ ret.qdone
    /\ \E i \in Idx(call.inmask) : call.inmask[i]
    /\ \A i \in Idx(ret.outmask) : ~ ret.outmask[i]

=============================================================================
